---- MODULE Spec2Model ----
(***************************************************************************)
(* Cell filtering pipeline of seqc (src/seqc/filter.py) and the cluster    *)
(* orchestration of seqc (src/seqc/remote.py).                             *)
(*                                                                         *)
(* The four filter stages (low_count, low_coverage, high_mitochondrial_rna,*)
(* low_gene_abundance) are operators from (matrix, mask) to the set of     *)
(* outcomes the stage can produce; create_filtered_dense_count_matrix is   *)
(* the state machine that threads the mask through them.  A stage can also *)
(* be called on its own with any mask (pc = "call").                       *)
(*                                                                         *)
(* Arithmetic is exact: numpy's floating-point quotients are modelled as   *)
(* rationals (cross-multiplied integers), log10 as a fixed-point table.    *)
(* The fitted mixture models of scikit-learn are an external collaborator: *)
(* their BIC scores, means and predictions are inputs of low_coverage.     *)
(* An outcome also records what the call left in its argument and whether  *)
(* it returned the argument itself, so that ownership of the masks can be  *)
(* stated.  Spec explores plot=False; SpecPlot explores both values.       *)
(*                                                                         *)
(* remote.py: the retry wrapper of ClusterServer.retry_boto_call           *)
(* (SpecRetry), create_spot_cluster (SpecSpot), attach_volume (SpecAttach) *)
(* and SSHServer.connect (SpecConnect) are state machines of their own;    *)
(* cluster_setup (SpecSetup) runs them in the order of its steps.          *)
(* EC2 and the ssh server are the environment: each answer they give is a  *)
(* nondeterministic choice.  While one program runs the variables of the   *)
(* others keep their idle values.                                          *)
(***************************************************************************)
EXTENDS Integers, Sequences, FiniteSets, TLC

VARIABLES
    pc,                        \* position in create_filtered_dense_count_matrix, or "call"
    molecules_data,            \* molecule counts, a sequence of rows (cells) over genes
    reads_data,                \* read counts, same shape
    molecules_index,           \* cell identifiers, one per row
    molecules_columns,         \* gene identifiers, each a sequence of characters
    max_mt_content,            \* [type, num, den]: the parameter, num/den when numeric
    filter_mitochondrial_rna,  \* BOOLEAN parameter
    plot,                      \* BOOLEAN parameter: diagnostic charts are requested
    is_invalid,                \* initial mask (pipeline) or the mask argument (single call)
    count_invalid,             \* mask returned by low_count
    cov_invalid,               \* mask returned by low_coverage
    mt_invalid,                \* mask returned by high_mitochondrial_rna (or cov_invalid)
    gene_invalid,              \* mask returned by low_gene_abundance
    cells_lost,                \* OrderedDict: sequence of <<key, value>>
    molecules_lost,            \* OrderedDict: sequence of <<key, value>>
    total_molecules,           \* sum of all molecule counts
    dense,                     \* the returned table: [index, columns, values]
    fig,                       \* the figure of the pipeline: "none", "grid" or "saved"
    raised,                    \* "none" or the name of the exception that ended the call
    calls                      \* history: one record per stage call, in call order

\* ClusterServer.retry_boto_call: one run of the wrapper
VARIABLES
    wrapper_pc,                \* "idle", "while" (loop test), "returned" or "raised"
    retries,                   \* the retries parameter
    numtries,                  \* the wrapper's counter
    func_calls,                \* history: outcome of each call of the wrapped function
    wrapper_out                \* what the wrapper returned or raised

\* ClusterServer.create_spot_cluster
VARIABLES
    spot_pc,                   \* "idle", "request", "poll" (loop test), "wait", "assign", "done", "raised"
    spot_resp,                 \* [State, Code] of the last describe_spot_instance_requests
    spot_i,                    \* i, the number of polls made inside the loop
    cancel_calls,              \* number of calls of cancel_spot_instance_requests
    inst_id,                   \* self.inst_id: "None" or the instance
    spot_exc                   \* "none" or the exception that ended the call

\* ClusterServer.attach_volume
VARIABLES
    attach_pc,                 \* "idle", "attach", "in_use" (first loop test), "modify", "attached" (second loop test), "returned", "raised"
    vol_state,                 \* vol.state
    attach_i,                  \* i
    http_status,               \* resp['ResponseMetadata']['HTTPStatusCode'], 0 before the call
    device_info,               \* self.inst_id.block_device_mappings as last read: a sequence of statuses
    status,                    \* status
    attach_exc                 \* "none" or the exception that ended the call

\* SSHServer.connect
VARIABLES
    connect_pc,                \* "idle", "try", "returned", "raised" or "exited"
    attempt,                   \* attempt
    ssh_calls,                 \* history: number of calls of self.ssh.connect
    connect_exc                \* last exception caught, and how the call ended

\* ClusterServer.cluster_setup
VARIABLES
    setup_pc,                  \* "idle", the step (and part of the step) that runs, "done" or "raised"
    spot_bid,                  \* self.spot_bid: 'None' or a price
    serv,                      \* self.serv: "None" or the connected SSHServer
    step_pos,                  \* number of remote commands the running step has issued
    steps,                     \* history: the steps entered, in order
    remote_log,                \* history: volume operations and remote commands, in order
    failed,                    \* history: the failures that occurred, each with its step
    setup_exc                  \* "none" or the exception that ended the call

filter_vars == <<pc, molecules_data, reads_data, molecules_index, molecules_columns,
                 max_mt_content, filter_mitochondrial_rna, plot, is_invalid,
                 count_invalid, cov_invalid, mt_invalid, gene_invalid, cells_lost,
                 molecules_lost, total_molecules, dense, fig, raised, calls>>

wrapper_vars == <<wrapper_pc, retries, numtries, func_calls, wrapper_out>>

spot_vars == <<spot_pc, spot_resp, spot_i, cancel_calls, inst_id, spot_exc>>

attach_vars == <<attach_pc, vol_state, attach_i, http_status, device_info, status,
                 attach_exc>>

connect_vars == <<connect_pc, attempt, ssh_calls, connect_exc>>

setup_vars == <<setup_pc, spot_bid, serv, step_pos, steps, remote_log, failed, setup_exc>>

remote_vars == <<wrapper_vars, spot_vars, attach_vars, connect_vars, setup_vars>>

vars == <<filter_vars, remote_vars>>

\* the wrapper has neither returned nor raised
NoOut == [kind |-> "none", value |-> "none"]

\* no answer of describe_spot_instance_requests yet
NoResp == [State |-> "none", Code |-> "none"]

-----------------------------------------------------------------------------
(* Bounds of the explored inputs *)

\* longest run of freely chosen cells at the head of a dataset
MaxFront == 2
\* length of the block of medium cells that may follow the head
MidLen == 3
\* length of the long block of identical small cells
FillLen == 20
\* longest head of freely chosen cells where runs with charts are explored
PlotFront == 1

-----------------------------------------------------------------------------
(* Program constants *)

\* pd.Series(...).rolling(10)
RollingWindow == 10
\* ...mean()[10:]
RollingSkip == 10
\* ms.shape[0] < 10 or rs.shape[0] < 10
MinMixtureCells == 10

-----------------------------------------------------------------------------
(* numpy helpers *)

\* an array held by value: every element is computed once, when it is built
Array(f) == <<>> \o f

RECURSIVE SumTo(_, _)
SumTo(s, n) == IF n = 0 THEN 0 ELSE s[n] + SumTo(s, n - 1)

\* np.sum over a vector of numbers
SeqSum(s) == SumTo(s, Len(s))

\* np.where(b)[0]: the positions where the boolean vector b holds, ascending
Where(b) ==
    LET F[n \in 0..Len(b)] ==
            IF n = 0 THEN <<>>
            ELSE IF b[n] THEN Append(F[n - 1], n) ELSE F[n - 1]
    IN F[Len(b)]

\* ~is_invalid
Not(mask) == Array([i \in 1..Len(mask) |-> ~mask[i]])

\* np.sum(mask): number of True entries
CountTrue(mask) == Cardinality({i \in 1..Len(mask) : mask[i]})

\* matrix.tocsr()[~is_invalid, :]: the rows of the valid cells, in order
ValidRows(matrix, mask) ==
    LET idx == Where(Not(mask)) IN Array([k \in 1..Len(idx) |-> matrix[idx[k]]])

\* np.ravel(matrix.tocsr()[~is_invalid, :].sum(axis=1)): one total per valid cell
RowSums(matrix, mask) ==
    LET rows == ValidRows(matrix, mask) IN Array([k \in 1..Len(rows) |-> SeqSum(rows[k])])

\* mutant: the marks are written to a fresh all-false mask instead of a copy
MarkAt_Fresh(mask, positions) == Array([i \in 1..Len(mask) |-> i \in positions])

\* mask.copy() with mask[positions] = True
MarkAt(mask, positions) == Array([i \in 1..Len(mask) |-> mask[i] \/ i \in positions])

RECURSIVE InsertDesc(_, _)
InsertDesc(s, x) ==
    IF s = <<>> THEN <<x>>
    ELSE IF x >= Head(s) THEN <<x>> \o s
    ELSE <<Head(s)>> \o InsertDesc(Tail(s), x)

RECURSIVE SortDesc(_)
\* ms[np.argsort(ms)[::-1]]: the values, largest first
SortDesc(s) == IF Len(s) = 0 THEN <<>> ELSE InsertDesc(SortDesc(Tail(s)), Head(s))

Min(S) == CHOOSE x \in S : \A y \in S : x <= y

-----------------------------------------------------------------------------
(* Floats that may be NaN.  A number is carried as an integer numerator     *)
(* over a denominator that is the same for the whole vector.                *)

NaN == [nan |-> TRUE, v |-> 0]
Num(x) == [nan |-> FALSE, v |-> x]
Sub(a, b) == IF a.nan \/ b.nan THEN NaN ELSE Num(a.v - b.v)
Add(a, b) == IF a.nan \/ b.nan THEN NaN ELSE Num(a.v + b.v)

RECURSIVE PrefixSum(_, _)
PrefixSum(s, i) == IF i = 1 THEN s[1] ELSE Add(PrefixSum(s, i - 1), s[i])

\* np.cumsum
CumSum(s) == Array([i \in 1..Len(s) |-> PrefixSum(s, i)])

RECURSIVE WindowSum(_, _, _)
WindowSum(s, i, w) == IF w = 0 THEN Num(0) ELSE Add(s[i], WindowSum(s, i - 1, w - 1))

\* pd.Series(s).rolling(10).mean(), times the window: NaN until the window is full
Rolling(s) ==
    Array([i \in 1..Len(s) |->
              IF i < RollingWindow THEN NaN ELSE WindowSum(s, i, RollingWindow)])

\* s[10:]
Skip(s) ==
    Array([i \in 1..(IF Len(s) > RollingSkip THEN Len(s) - RollingSkip ELSE 0) |->
              s[i + RollingSkip]])

\* np.diff
Diff(s) ==
    Array([i \in 1..(IF Len(s) > 1 THEN Len(s) - 1 ELSE 0) |-> Sub(s[i + 1], s[i])])

-----------------------------------------------------------------------------
(* Outcome of a stage call *)

NoGmm == [fitted |-> FALSE, bic1 |-> 0, bic2 |-> 0, predicted |-> FALSE,
          res |-> <<>>, means |-> <<0, 0>>]

\* yhat[k] / scale is regr.predict for the k-th valid cell, in hundredths
NoRegr == [fitted |-> FALSE, scale |-> 1, yhat |-> <<>>]

\* arg_after: the contents of the mask argument when the call ends;
\* ret: the returned mask; same_object: the return value is the argument itself;
\* warned: warnings.warn was called; vcrit: low_count's threshold, -1 if none
\* plotted: the stage drew its chart
Outcome(exc, arg, ret, same, warned, vcrit, gmm, regr) ==
    [raised |-> exc, arg_after |-> arg, ret |-> ret, same_object |-> same,
     warned |-> warned, vcrit |-> vcrit, gmm |-> gmm, regr |-> regr,
     plotted |-> FALSE]

\* return is_invalid where is_invalid is still the argument
PassThrough(mask, warned) ==
    Outcome("none", mask, mask, TRUE, warned, -1, NoGmm, NoRegr)

Raises(exc, mask) == Outcome(exc, mask, <<>>, FALSE, FALSE, -1, NoGmm, NoRegr)

\* mutant: the marks are written to the argument, no copy is made
AfterCopy_InPlace(mask, written) == written

\* is_invalid = is_invalid.copy() rebinds the local name: the writes that
\* follow land on the copy and the argument keeps its contents
AfterCopy(mask, written) == mask

\* return is_invalid after the copy and its writes
Returned(mask, written) ==
    Outcome("none", AfterCopy(mask, written), written, FALSE, FALSE, -1, NoGmm, NoRegr)

\* mutant: the density estimate of the scatter plot fails and the error leaves
\* the stage
Chart_Raises(out) == Raises("LinAlgError", out.arg_after)

\* the calls into seqc.plot and matplotlib of an `if plot and ax:` block:
\* they draw on ax, return nothing the stage uses and raise nothing
Chart(out) == [out EXCEPT !.plotted = TRUE]

\* if plot and ax: ..., placed after the mask is decided and before
\* return is_invalid
Plotted(outcomes, plot_, ax) ==
    IF plot_ /\ ax
    THEN {IF out.raised = "none" THEN Chart(out) ELSE out : out \in outcomes}
    ELSE outcomes

-----------------------------------------------------------------------------
(* low_count *)

\* d2 of low_count, times 100 * ms.sum(): second difference of the smoothed ecdf
SecondDerivative(ms) ==
    LET sorted == SortDesc(ms)
        total == SeqSum(sorted)
        \* ms[idx] / ms[idx].sum(): 0/0 is NaN
        norm_ms == Array([i \in 1..Len(sorted) |->
                             IF total = 0 THEN NaN ELSE Num(sorted[i])])
        cms == CumSum(norm_ms)
        d1 == Diff(Skip(Rolling(cms)))
    IN Diff(Skip(Rolling(d1)))

\* np.where(np.abs(d2) == 0)[0], 0-based
ZeroPoints(d2) == {k - 1 : k \in {j \in 1..Len(d2) : ~d2[j].nan /\ d2[j].v = 0}}

\* int(inflection_pt * .9)
Buffered(inflection_pt) == (9 * inflection_pt) \div 10

\* mutant: ms <= vcrit
MarkBelow_OrEqual(mask, ms, vcrit) ==
    LET below == {i \in 1..Len(ms) : ms[i] <= vcrit}
        marked == [Returned(mask, MarkAt(mask, below)) EXCEPT !.vcrit = vcrit]
    IN IF Len(ms) = Len(mask) THEN {marked} ELSE {marked, Raises("IndexError", mask)}

\* is_invalid[ms < vcrit] = True on the copy.  ms has one entry per valid cell:
\* when cells are already excluded the boolean index is shorter than the mask,
\* which numpy >= 1.13 refuses (IndexError) and older numpy applies to the
\* leading positions.
MarkBelow(mask, ms, vcrit) ==
    LET below == {i \in 1..Len(ms) : ms[i] < vcrit}
        marked == [Returned(mask, MarkAt(mask, below)) EXCEPT !.vcrit = vcrit]
    IN IF Len(ms) = Len(mask) THEN {marked} ELSE {marked, Raises("IndexError", mask)}

\* mutant: the ValueError of np.min on an empty array is not caught
low_count_Unguarded(molecules, mask, plot_, ax) ==
    LET ms == RowSums(molecules, mask)
        zeros == ZeroPoints(SecondDerivative(ms))
    IN IF zeros = {}
       THEN {Raises("ValueError", mask)}
       ELSE Plotted(MarkBelow(mask, ms, SortDesc(ms)[Buffered(Min(zeros)) + 1]),
                    plot_, ax)

low_count(molecules, mask, plot_, ax) ==
    LET ms == RowSums(molecules, mask)
        zeros == ZeroPoints(SecondDerivative(ms))
    IN IF zeros = {}
       THEN \* np.min of an empty array raises ValueError: warn and pass through
            {PassThrough(mask, TRUE)}
       ELSE LET inflection_pt == Buffered(Min(zeros))
                vcrit == SortDesc(ms)[inflection_pt + 1]
            IN Plotted(MarkBelow(mask, ms, vcrit), plot_, ax)

-----------------------------------------------------------------------------
(* low_coverage *)

\* (gmm1.bic, gmm2.bic) as reported by the fitted mixture models
BicPairs == {<<100, 94>>, <<100, 95>>, <<100, 96>>,
             <<-100, -90>>, <<-100, -120>>, <<0, -5>>}

\* gmm2.means_ as reported after fit_predict
MeansPairs == {<<1, 3>>, <<3, 1>>, <<2, 2>>}

\* gmm2.fit_predict(col_ratio): a component (0 or 1) for each of n valid cells
Predictions(n) ==
    { Array([j \in 1..n |-> 0]),
      Array([j \in 1..n |-> j % 2]),
      Array([j \in 1..n |-> IF 2 * j <= n THEN 0 ELSE 1]) }

\* gmm2.bic(col_ratio) / gmm1.bic(col_ratio) < 0.95, a float64 quotient:
\* x / 0.0 is -inf, nan or +inf
SecondComponentNeeded(bic1, bic2) ==
    IF bic1 > 0 THEN 100 * bic2 < 95 * bic1
    ELSE IF bic1 < 0 THEN 100 * bic2 > 95 * bic1
    ELSE bic2 < 0

\* np.argmin(gmm2.means_): the first smallest
ArgMin(means) == IF means[2] < means[1] THEN 1 ELSE 0

\* np.where(res == np.argmin(gmm2.means_))[0], as positions among the valid cells
FailingComponent(res, means) == {j \in 1..Len(res) : res[j] = ArgMin(means)}

\* mutant: is_invalid[failing] = True, the positions among the valid cells
\* taken for positions in the mask
MarkValid_Compact(mask, failing) == MarkAt(mask, failing)

\* is_invalid[np.where(~is_invalid)[0][failing]] = True on a copy
MarkValid(mask, failing) ==
    LET idx == Where(Not(mask)) IN MarkAt(mask, {idx[k] : k \in failing})

\* gmm1.fit, gmm2.fit, the BIC test and, when it is met, fit_predict and the marks
MixtureOutcomes(mask, ms) ==
    IF \E k \in 1..Len(ms) : ms[k] = 0
    THEN \* rs / ms is nan or inf there, which GMM.fit rejects
         {Raises("ValueError", mask)}
    ELSE { [PassThrough(mask, FALSE) EXCEPT
               !.gmm = [fitted |-> TRUE, bic1 |-> b[1], bic2 |-> b[2],
                        predicted |-> FALSE, res |-> <<>>, means |-> <<0, 0>>]] :
               b \in {p \in BicPairs : ~SecondComponentNeeded(p[1], p[2])} }
         \cup
         { [Returned(mask, MarkValid(mask, FailingComponent(r[2], r[3]))) EXCEPT
               !.gmm = [fitted |-> TRUE, bic1 |-> r[1][1], bic2 |-> r[1][2],
                        predicted |-> TRUE, res |-> r[2], means |-> r[3]]] :
               r \in {p \in BicPairs : SecondComponentNeeded(p[1], p[2])}
                     \X Predictions(Len(ms)) \X MeansPairs }

\* mutant: the mixture models are fitted however few cells there are
low_coverage_Unguarded(molecules, reads, mask, plot_, ax) ==
    Plotted(MixtureOutcomes(mask, RowSums(molecules, mask)), plot_, ax)

low_coverage(molecules, reads, mask, plot_, ax) ==
    LET ms == RowSums(molecules, mask)
        rs == RowSums(reads, mask)
    IN IF Len(ms) < MinMixtureCells \/ Len(rs) < MinMixtureCells
       THEN \* warn and pass through
            {PassThrough(mask, TRUE)}
       ELSE Plotted(MixtureOutcomes(mask, ms), plot_, ax)

-----------------------------------------------------------------------------
(* high_mitochondrial_rna *)

\* x.startswith('MT-')
StartsWithMT(x) == Len(x) >= 3 /\ SubSeq(x, 1, 3) = <<"M", "T", "-">>

\* one row's total over the mitochondrial genes
MtSum(row, gene_ids) ==
    SeqSum(Array([j \in 1..Len(row) |-> IF StartsWithMT(gene_ids[j]) THEN row[j] ELSE 0]))

\* mutant: ratios >= max_mt_content
RatioExceeds_OrEqual(mt, total, q) ==
    total > 0 /\ q.den > 0 /\ mt * q.den >= q.num * total

\* mt_molecules / ms > max_mt_content; 0 / 0 is nan, which is greater than nothing
RatioExceeds(mt, total, q) == total > 0 /\ q.den > 0 /\ mt * q.den > q.num * total

high_mitochondrial_rna(molecules, gene_ids, mask, q, plot_, ax) ==
    LET rows == ValidRows(molecules, mask)
        failing == {k \in 1..Len(rows) :
                       RatioExceeds(MtSum(rows[k], gene_ids), SeqSum(rows[k]), q)}
    IN \* with no valid cell the plot block returns before it draws
       Plotted({Returned(mask, MarkValid(mask, failing))},
               plot_ /\ Len(rows) > 0, ax)

-----------------------------------------------------------------------------
(* low_gene_abundance *)

\* np.log10 of 1..10 in hundredths
Log10Table == <<0, 30, 48, 60, 70, 78, 85, 90, 95, 100>>
Log10(n) == Log10Table[n]

\* residuals > .15, in hundredths
ResidualMargin == 15

\* getnnz of one row
NonZero(row) == Cardinality({j \in 1..Len(row) : row[j] # 0})

\* regr.fit(x, y); yhat = regr.predict(x).
\* Ordinary least squares with intercept; a constant x fits slope 0.
\* The fitted values are carried as numerators over one positive scale.
Predict(x, y) ==
    LET n == Len(x)
        sx == SeqSum(x)
        sy == SeqSum(y)
        sxx == SeqSum(Array([k \in 1..n |-> x[k] * x[k]]))
        sxy == SeqSum(Array([k \in 1..n |-> x[k] * y[k]]))
        den == n * sxx - sx * sx
        slope == n * sxy - sx * sy
    IN IF den = 0
       THEN [fitted |-> TRUE, scale |-> n, yhat |-> Array([k \in 1..n |-> sy])]
       ELSE [fitted |-> TRUE, scale |-> n * den,
             yhat |-> Array([k \in 1..n |-> den * sy + slope * (n * x[k] - sx)])]

\* mutant: residuals >= .15
LargeResiduals_OrEqual(regr, y) ==
    {k \in 1..Len(y) : regr.yhat[k] - regr.scale * y[k] >= ResidualMargin * regr.scale}

\* residuals = yhat - y; failing = residuals > .15
LargeResiduals(regr, y) ==
    {k \in 1..Len(y) : regr.yhat[k] - regr.scale * y[k] > ResidualMargin * regr.scale}

\* the log10 transforms, the regression and the marks
RegressionOutcomes(mask, ms, genes) ==
    IF \E k \in 1..Len(ms) : ms[k] = 0
    THEN \* log10(0) is -inf, which LinearRegression.fit rejects
         {Raises("ValueError", mask)}
    ELSE LET x == Array([k \in 1..Len(ms) |-> Log10(ms[k])])
             y == Array([k \in 1..Len(ms) |-> Log10(genes[k])])
             regr == Predict(x, y)
         IN {[Returned(mask, MarkValid(mask, LargeResiduals(regr, y))) EXCEPT
                 !.regr = regr]}

\* mutant: the regression is fitted although no cell is valid, and
\* LinearRegression.fit rejects an array of 0 samples
low_gene_abundance_Unguarded(molecules, mask, plot_, ax) ==
    LET rows == ValidRows(molecules, mask)
        ms == Array([k \in 1..Len(rows) |-> SeqSum(rows[k])])
        genes == Array([k \in 1..Len(rows) |-> NonZero(rows[k])])
    IN IF Len(rows) = 0
       THEN {Raises("ValueError", mask)}
       ELSE Plotted(RegressionOutcomes(mask, ms, genes), plot_, ax)

low_gene_abundance(molecules, mask, plot_, ax) ==
    LET rows == ValidRows(molecules, mask)
        ms == Array([k \in 1..Len(rows) |-> SeqSum(rows[k])])
        genes == Array([k \in 1..Len(rows) |-> NonZero(rows[k])])
    IN IF Len(rows) = 0
       THEN \* not (x.shape[0] or y.shape[0]): return is_invalid
            {PassThrough(mask, FALSE)}
       ELSE Plotted(RegressionOutcomes(mask, ms, genes), plot_, ax)

-----------------------------------------------------------------------------
(* Inputs *)

\* gene identifiers: a mitochondrial gene, a gene that only starts with MT, another
GeneIds == << <<"M", "T", "-", "A">>, <<"M", "T", "B">>, <<"G">> >>

\* rows of the molecule matrix over GeneIds
EmptyCell == <<0, 0, 0>>
SmallCell == <<0, 0, 1>>
FifthMtCell == <<1, 0, 4>>
QuarterMtCell == <<1, 1, 2>>
FewGenesCell == <<0, 0, 5>>
RowKinds == {EmptyCell, SmallCell, FifthMtCell, QuarterMtCell, FewGenesCell}

Repeat(row, m) == Array([i \in 1..m |-> row])

\* a head of at most front freely chosen cells, then blocks of identical cells
DatasetsUpTo(front) ==
    { f \o Repeat(QuarterMtCell, a) \o Repeat(SmallCell, m) :
        f \in UNION {[1..k -> RowKinds] : k \in 0..front},
        a \in {0, MidLen},
        m \in {0, MinMixtureCells - 1, FillLen} }

Datasets == DatasetsUpTo(MaxFront)

\* the matrices on which runs with and without charts are compared
PlotDatasets == DatasetsUpTo(PlotFront)

\* molecules.index: the cell barcodes, as integers
CellIds(n) == Array([i \in 1..n |-> 100 + i])

\* the read matrix that goes with a molecule matrix: two reads per molecule
ReadsOf(d) == Array([i \in 1..Len(d) |-> Array([j \in 1..Len(d[i]) |-> 2 * d[i][j]])])

PyFloat(n, d) == [type |-> "float", num |-> n, den |-> d]
PyInt(n) == [type |-> "int", num |-> n, den |-> 1]
NoParam == [type |-> "none", num |-> 0, den |-> 1]

\* the default of max_mt_content
DefaultMt == PyFloat(1, 5)

\* values tried for max_mt_content; PyFloat(0, 0) is nan
MtValues == {PyFloat(-1, 2), PyFloat(0, 1), PyFloat(1, 5), PyFloat(1, 4), PyFloat(1, 1),
             PyFloat(3, 2), PyFloat(0, 0), PyInt(0), PyInt(1), PyInt(2)}

\* masks tried for a single stage call: any of the first two cells and the
\* last excluded, or all excluded
Masks(n) ==
    { Array([i \in 1..n |-> i \in S]) : S \in SUBSET ({1, 2, n} \cap 1..n) }
    \cup { Array([i \in 1..n |-> TRUE]) }

-----------------------------------------------------------------------------
(* create_filtered_dense_count_matrix *)

\* mutant: the matrix counts as empty only when it has no rows
MatrixSum_Rows(matrix) == Len(matrix)

\* molecules.sum().sum()
MatrixSum(matrix) == SeqSum(Array([i \in 1..Len(matrix) |-> SeqSum(matrix[i])]))

\* isinstance(max_mt_content, float)
IsFloat(q) == q.type = "float"

\* mutant: 0 < max_mt_content < 1
InUnitInterval_Open(q) == q.den > 0 /\ 0 < q.num /\ q.num < q.den

\* 0 <= max_mt_content <= 1 (false for nan)
InUnitInterval(q) == q.den > 0 /\ 0 <= q.num /\ q.num <= q.den

\* mutant: data_matrix[~filter].sum().sum(), the molecules of the valid cells
MaskedSum_Valid(matrix, filter) == SeqSum(RowSums(matrix, filter))

\* data_matrix[filter].sum().sum()
MaskedSum(matrix, filter) == SeqSum(RowSums(matrix, Not(filter)))

\* mutant: the cells lost so far instead of the cells lost in this stage
additional_loss_Total(new_filter, old_filter, data_matrix) ==
    <<CountTrue(new_filter),
      MaskedSum(data_matrix, new_filter) - MaskedSum(data_matrix, old_filter)>>

\* mutant: old_molecule_loss is not subtracted
additional_loss_NoBaseline(new_filter, old_filter, data_matrix) ==
    <<CountTrue(new_filter) - CountTrue(old_filter), MaskedSum(data_matrix, new_filter)>>

\* mutant: the pair is returned as (molecule loss, cell loss)
additional_loss_Swapped(new_filter, old_filter, data_matrix) ==
    <<MaskedSum(data_matrix, new_filter) - MaskedSum(data_matrix, old_filter),
      CountTrue(new_filter) - CountTrue(old_filter)>>

additional_loss(new_filter, old_filter, data_matrix) ==
    LET new_cell_loss == CountTrue(new_filter) - CountTrue(old_filter)
        total_molecule_loss == MaskedSum(data_matrix, new_filter)
        old_molecule_loss == MaskedSum(data_matrix, old_filter)
    IN <<new_cell_loss, total_molecule_loss - old_molecule_loss>>

\* d[key] = value on an OrderedDict
DictSet(d, key, value) ==
    IF \E i \in 1..Len(d) : d[i][1] = key
    THEN Array([i \in 1..Len(d) |-> IF d[i][1] = key THEN <<key, value>> ELSE d[i]])
    ELSE Append(d, <<key, value>>)

\* mutant: a gene is kept when any cell of the input has it, survivor or not
DenseTable_AllCells(data, index, columns, mask) ==
    LET keep == Where(Not(mask))
        rows == ValidRows(data, mask)
        nonzero_gene_count ==
            Array([j \in 1..Len(columns) |->
                      SeqSum(Array([i \in 1..Len(data) |-> data[i][j]])) # 0])
        cols == Where(nonzero_gene_count)
    IN [index |-> Array([k \in 1..Len(keep) |-> index[keep[k]]]),
        columns |-> Array([l \in 1..Len(cols) |-> columns[cols[l]]]),
        values |-> Array([k \in 1..Len(rows) |->
                             Array([l \in 1..Len(cols) |-> rows[k][cols[l]]])])]

\* dense = molecules_data.tocsr()[~gene_invalid, :].todense();
\* nonzero_gene_count = np.ravel(dense.sum(axis=0) != 0);
\* pd.DataFrame(dense[:, nonzero_gene_count], index=molecules.index[~gene_invalid],
\*              columns=molecules.columns[nonzero_gene_count])
DenseTable(data, index, columns, mask) ==
    LET keep == Where(Not(mask))
        rows == ValidRows(data, mask)
        nonzero_gene_count ==
            Array([j \in 1..Len(columns) |->
                      SeqSum(Array([k \in 1..Len(rows) |-> rows[k][j]])) # 0])
        cols == Where(nonzero_gene_count)
    IN [index |-> Array([k \in 1..Len(keep) |-> index[keep[k]]]),
        columns |-> Array([l \in 1..Len(cols) |-> columns[cols[l]]]),
        values |-> Array([k \in 1..Len(rows) |->
                             Array([l \in 1..Len(cols) |-> rows[k][cols[l]]])])]

\* no table has been built
NoDense == [index |-> <<>>, columns |-> <<>>, values |-> <<>>]

Call(stage, mask, q, out) ==
    [stage |-> stage, is_invalid |-> mask, max_mt_content |-> q, out |-> out]

\* the inputs: a matrix of the given family and a value of plot
\* no run of the retry wrapper
WrapperIdle ==
    /\ wrapper_pc = "idle"
    /\ retries = 0
    /\ numtries = 0
    /\ func_calls = <<>>
    /\ wrapper_out = NoOut

\* no run of create_spot_cluster
SpotIdle ==
    /\ spot_pc = "idle"
    /\ spot_resp = NoResp
    /\ spot_i = 0
    /\ cancel_calls = 0
    /\ inst_id = "None"
    /\ spot_exc = "none"

\* no run of attach_volume
AttachIdle ==
    /\ attach_pc = "idle"
    /\ vol_state = "none"
    /\ attach_i = 0
    /\ http_status = 0
    /\ device_info = <<>>
    /\ status = "none"
    /\ attach_exc = "none"

\* no run of SSHServer.connect
ConnectIdle ==
    /\ connect_pc = "idle"
    /\ attempt = 0
    /\ ssh_calls = 0
    /\ connect_exc = [last |-> "none", ended |-> "none"]

\* no run of cluster_setup
SetupIdle ==
    /\ setup_pc = "idle"
    /\ spot_bid = "None"
    /\ serv = "None"
    /\ step_pos = 0
    /\ steps = <<>>
    /\ remote_log = <<>>
    /\ failed = <<>>
    /\ setup_exc = "none"

InitOn(datasets, plots) ==
    /\ molecules_data \in datasets
    /\ reads_data = ReadsOf(molecules_data)
    /\ molecules_index = CellIds(Len(molecules_data))
    /\ molecules_columns = GeneIds
    /\ \/ /\ pc = "start"
          /\ \/ max_mt_content = DefaultMt
             \/ /\ Len(molecules_data) <= MaxFront
                /\ max_mt_content \in MtValues
          /\ filter_mitochondrial_rna \in BOOLEAN
          /\ plot \in plots
          /\ is_invalid = <<>>
       \/ /\ pc = "call"
          /\ max_mt_content = NoParam
          /\ filter_mitochondrial_rna = TRUE
          /\ is_invalid \in Masks(Len(molecules_data))
          /\ plot \in plots
    /\ count_invalid = <<>>
    /\ cov_invalid = <<>>
    /\ mt_invalid = <<>>
    /\ gene_invalid = <<>>
    /\ cells_lost = <<>>
    /\ molecules_lost = <<>>
    /\ total_molecules = 0
    /\ dense = NoDense
    /\ fig = "none"
    /\ raised = "none"
    /\ calls = <<>>
    /\ WrapperIdle /\ SpotIdle /\ AttachIdle /\ ConnectIdle /\ SetupIdle

\* plot=False, the default
Init == InitOn(Datasets, {FALSE})

\* plot=False and plot=True side by side
InitPlot == InitOn(PlotDatasets, BOOLEAN)

Fail(exc) ==
    /\ pc' = "raised"
    /\ raised' = exc

RaiseEmptyMatrix ==
    /\ pc = "start"
    /\ MatrixSum(molecules_data) = 0
    /\ Fail("EmptyMatrixError")
    /\ UNCHANGED remote_vars
    /\ UNCHANGED <<molecules_data, reads_data, molecules_index, molecules_columns,
                   max_mt_content, filter_mitochondrial_rna, plot, is_invalid,
                   count_invalid, cov_invalid, mt_invalid, gene_invalid, cells_lost,
                   molecules_lost, total_molecules, dense, fig, calls>>

RaiseTypeError ==
    /\ pc = "start"
    /\ MatrixSum(molecules_data) # 0
    /\ ~IsFloat(max_mt_content)
    /\ Fail("TypeError")
    /\ UNCHANGED remote_vars
    /\ UNCHANGED <<molecules_data, reads_data, molecules_index, molecules_columns,
                   max_mt_content, filter_mitochondrial_rna, plot, is_invalid,
                   count_invalid, cov_invalid, mt_invalid, gene_invalid, cells_lost,
                   molecules_lost, total_molecules, dense, fig, calls>>

RaiseValueError ==
    /\ pc = "start"
    /\ MatrixSum(molecules_data) # 0
    /\ IsFloat(max_mt_content)
    /\ ~InUnitInterval(max_mt_content)
    /\ Fail("ValueError")
    /\ UNCHANGED remote_vars
    /\ UNCHANGED <<molecules_data, reads_data, molecules_index, molecules_columns,
                   max_mt_content, filter_mitochondrial_rna, plot, is_invalid,
                   count_invalid, cov_invalid, mt_invalid, gene_invalid, cells_lost,
                   molecules_lost, total_molecules, dense, fig, calls>>

SetUp ==
    /\ pc = "start"
    /\ MatrixSum(molecules_data) # 0
    /\ IsFloat(max_mt_content)
    /\ InUnitInterval(max_mt_content)
    /\ is_invalid' = Array([i \in 1..Len(molecules_data) |-> FALSE])
    /\ total_molecules' = MatrixSum(molecules_data)
    \* fig = seqc.plot.FigureGrid(4, max_cols=2) when plot, else None
    /\ fig' = IF plot THEN "grid" ELSE "none"
    /\ pc' = "low_count"
    /\ UNCHANGED remote_vars
    /\ UNCHANGED <<molecules_data, reads_data, molecules_index, molecules_columns,
                   max_mt_content, filter_mitochondrial_rna, plot, count_invalid,
                   cov_invalid, mt_invalid, gene_invalid, cells_lost, molecules_lost,
                   dense, raised, calls>>

\* what follows a stage call: the exception propagates, or the loss is booked
Book(out, key, old_filter, next) ==
    IF out.raised # "none"
    THEN /\ Fail(out.raised)
         /\ UNCHANGED <<cells_lost, molecules_lost>>
    ELSE LET loss == additional_loss(out.ret, old_filter, molecules_data)
         IN /\ cells_lost' = DictSet(cells_lost, key, loss[1])
            /\ molecules_lost' = DictSet(molecules_lost, key, loss[2])
            /\ pc' = next
            /\ UNCHANGED raised

\* the k-th stage call returned its argument: two names are bound to one array
SameObject(k) == calls[k].out.same_object

\* mt_invalid is bound to the array of cov_invalid
MtIsCov == IF filter_mitochondrial_rna THEN SameObject(3) ELSE TRUE

\* a name bound to the array a stage was given holds what the stage left in it
Seen(aliased, old, out) == IF aliased THEN out.arg_after ELSE old

FilterLowCount ==
    /\ pc = "low_count"
    /\ \E out \in low_count(molecules_data, is_invalid, plot, plot) :
          /\ calls' = Append(calls, Call("low_count", is_invalid, NoParam, out))
          /\ is_invalid' = out.arg_after
          /\ count_invalid' = out.ret
          /\ Book(out, "low_count", out.arg_after, "low_coverage")
    /\ UNCHANGED remote_vars
    /\ UNCHANGED <<molecules_data, reads_data, molecules_index, molecules_columns,
                   max_mt_content, filter_mitochondrial_rna, plot, cov_invalid, mt_invalid,
                   gene_invalid, total_molecules, dense, fig>>

FilterLowCoverage ==
    /\ pc = "low_coverage"
    /\ \E out \in low_coverage(molecules_data, reads_data, count_invalid, plot, plot) :
          /\ calls' = Append(calls, Call("low_coverage", count_invalid, NoParam, out))
          /\ count_invalid' = out.arg_after
          /\ is_invalid' = Seen(SameObject(1), is_invalid, out)
          /\ cov_invalid' = out.ret
          /\ Book(out, "low_coverage", out.arg_after,
                  IF filter_mitochondrial_rna THEN "high_mt" ELSE "skip_mt")
    /\ UNCHANGED remote_vars
    /\ UNCHANGED <<molecules_data, reads_data, molecules_index, molecules_columns,
                   max_mt_content, filter_mitochondrial_rna, plot, mt_invalid,
                   gene_invalid, total_molecules, dense, fig>>

FilterHighMt ==
    /\ pc = "high_mt"
    /\ \E out \in high_mitochondrial_rna(molecules_data, molecules_columns,
                                         cov_invalid, max_mt_content, plot,
                                         plot) :
          /\ calls' = Append(calls, Call("high_mitochondrial_rna", cov_invalid,
                                         max_mt_content, out))
          /\ cov_invalid' = out.arg_after
          /\ count_invalid' = Seen(SameObject(2), count_invalid, out)
          /\ is_invalid' = Seen(SameObject(2) /\ SameObject(1), is_invalid, out)
          /\ mt_invalid' = out.ret
          /\ Book(out, "high_mt", out.arg_after, "low_gene")
    /\ UNCHANGED remote_vars
    /\ UNCHANGED <<molecules_data, reads_data, molecules_index, molecules_columns,
                   max_mt_content, filter_mitochondrial_rna, plot, gene_invalid,
                   total_molecules, dense, fig>>

\* mutant: a skipped stage is booked with no loss
SkipHighMt_Booked ==
    /\ pc = "skip_mt"
    /\ mt_invalid' = cov_invalid
    /\ cells_lost' = DictSet(cells_lost, "high_mt", 0)
    /\ molecules_lost' = DictSet(molecules_lost, "high_mt", 0)
    /\ pc' = "low_gene"
    /\ UNCHANGED remote_vars
    /\ UNCHANGED <<molecules_data, reads_data, molecules_index, molecules_columns,
                   max_mt_content, filter_mitochondrial_rna, plot, is_invalid,
                   count_invalid, cov_invalid, gene_invalid, total_molecules, dense, fig,
                   raised, calls>>

SkipHighMt ==
    /\ pc = "skip_mt"
    /\ mt_invalid' = cov_invalid
    /\ pc' = "low_gene"
    /\ UNCHANGED remote_vars
    /\ UNCHANGED <<molecules_data, reads_data, molecules_index, molecules_columns,
                   max_mt_content, filter_mitochondrial_rna, plot, is_invalid,
                   count_invalid, cov_invalid, gene_invalid, cells_lost,
                   molecules_lost, total_molecules, dense, fig, raised, calls>>

\* mutant: low_gene_abundance is given cov_invalid, not mt_invalid
FilterLowGene_CovMask ==
    /\ pc = "low_gene"
    /\ \E out \in low_gene_abundance(molecules_data, cov_invalid, plot, plot) :
          /\ calls' = Append(calls, Call("low_gene_abundance", cov_invalid, NoParam, out))
          /\ cov_invalid' = out.arg_after
          /\ mt_invalid' = Seen(MtIsCov, mt_invalid, out)
          /\ count_invalid' = Seen(SameObject(2), count_invalid, out)
          /\ is_invalid' = Seen(SameObject(2) /\ SameObject(1), is_invalid, out)
          /\ gene_invalid' = out.ret
          /\ Book(out, "low_gene_detection", mt_invalid, "dense")
    /\ UNCHANGED remote_vars
    /\ UNCHANGED <<molecules_data, reads_data, molecules_index, molecules_columns,
                   max_mt_content, filter_mitochondrial_rna, plot, total_molecules, dense, fig>>

FilterLowGene ==
    /\ pc = "low_gene"
    /\ \E out \in low_gene_abundance(molecules_data, mt_invalid, plot, plot) :
          /\ calls' = Append(calls, Call("low_gene_abundance", mt_invalid, NoParam, out))
          /\ mt_invalid' = out.arg_after
          /\ cov_invalid' = Seen(MtIsCov, cov_invalid, out)
          /\ count_invalid' = Seen(MtIsCov /\ SameObject(2), count_invalid, out)
          /\ is_invalid' = Seen(MtIsCov /\ SameObject(2) /\ SameObject(1), is_invalid, out)
          /\ gene_invalid' = out.ret
          /\ Book(out, "low_gene_detection", out.arg_after, "dense")
    /\ UNCHANGED remote_vars
    /\ UNCHANGED <<molecules_data, reads_data, molecules_index, molecules_columns,
                   max_mt_content, filter_mitochondrial_rna, plot, total_molecules, dense, fig>>

\* mutant: the rows of the excluded cells are removed from the input matrix
\* itself
Return_InPlace ==
    /\ pc = "dense"
    /\ dense' = DenseTable(molecules_data, molecules_index, molecules_columns,
                           gene_invalid)
    /\ molecules_data' = ValidRows(molecules_data, gene_invalid)
    /\ molecules_index' = dense'.index
    /\ fig' = IF plot THEN "saved" ELSE fig
    /\ pc' = "returned"
    /\ UNCHANGED remote_vars
    /\ UNCHANGED <<reads_data, molecules_columns,
                   max_mt_content, filter_mitochondrial_rna, plot, is_invalid,
                   count_invalid, cov_invalid, mt_invalid, gene_invalid, cells_lost,
                   molecules_lost, total_molecules, raised, calls>>

Return ==
    /\ pc = "dense"
    /\ dense' = DenseTable(molecules_data, molecules_index, molecules_columns,
                           gene_invalid)
    \* fig.tight_layout(); fig.savefig(figname) when plot
    /\ fig' = IF plot THEN "saved" ELSE fig
    /\ pc' = "returned"
    /\ UNCHANGED remote_vars
    /\ UNCHANGED <<molecules_data, reads_data, molecules_index, molecules_columns,
                   max_mt_content, filter_mitochondrial_rna, plot, is_invalid,
                   count_invalid, cov_invalid, mt_invalid, gene_invalid, cells_lost,
                   molecules_lost, total_molecules, raised, calls>>

-----------------------------------------------------------------------------
(* A stage called on its own, with any mask *)

Called(call) ==
    /\ calls' = Append(calls, call)
    /\ is_invalid' = call.out.arg_after
    /\ raised' = call.out.raised
    /\ pc' = "called"
    /\ UNCHANGED remote_vars
    /\ UNCHANGED <<molecules_data, reads_data, molecules_index, molecules_columns,
                   max_mt_content, filter_mitochondrial_rna, plot, count_invalid,
                   cov_invalid, mt_invalid, gene_invalid, cells_lost, molecules_lost,
                   total_molecules, dense, fig>>

CallLowCount ==
    /\ pc = "call"
    /\ \E out \in low_count(molecules_data, is_invalid, plot, plot) :
          Called(Call("low_count", is_invalid, NoParam, out))

CallLowCoverage ==
    /\ pc = "call"
    /\ \E out \in low_coverage(molecules_data, reads_data, is_invalid, plot, plot) :
          Called(Call("low_coverage", is_invalid, NoParam, out))

CallHighMt ==
    /\ pc = "call"
    /\ \E q \in {m \in MtValues : IsFloat(m) /\ InUnitInterval(m)} :
          \E out \in high_mitochondrial_rna(molecules_data, molecules_columns,
                                            is_invalid, q, plot, plot) :
             Called(Call("high_mitochondrial_rna", is_invalid, q, out))

CallLowGene ==
    /\ pc = "call"
    /\ \E out \in low_gene_abundance(molecules_data, is_invalid, plot, plot) :
          Called(Call("low_gene_abundance", is_invalid, NoParam, out))

-----------------------------------------------------------------------------

Next ==
    \/ RaiseEmptyMatrix
    \/ RaiseTypeError
    \/ RaiseValueError
    \/ SetUp
    \/ FilterLowCount
    \/ FilterLowCoverage
    \/ FilterHighMt
    \/ SkipHighMt
    \/ FilterLowGene
    \/ Return
    \/ CallLowCount
    \/ CallLowCoverage
    \/ CallHighMt
    \/ CallLowGene

Spec == Init /\ [][Next]_vars

SpecPlot == InitPlot /\ [][Next]_vars

-----------------------------------------------------------------------------
(* remote.py *)

\* the pipeline is not running
FilterIdle ==
    /\ pc = "idle"
    /\ molecules_data = <<>>
    /\ reads_data = <<>>
    /\ molecules_index = <<>>
    /\ molecules_columns = <<>>
    /\ max_mt_content = NoParam
    /\ filter_mitochondrial_rna = TRUE
    /\ plot = FALSE
    /\ is_invalid = <<>>
    /\ count_invalid = <<>>
    /\ cov_invalid = <<>>
    /\ mt_invalid = <<>>
    /\ gene_invalid = <<>>
    /\ cells_lost = <<>>
    /\ molecules_lost = <<>>
    /\ total_molecules = 0
    /\ dense = NoDense
    /\ fig = "none"
    /\ raised = "none"
    /\ calls = <<>>

-----------------------------------------------------------------------------
(* ClusterServer.retry_boto_call and ClusterServer.boto_errors              *)
(*                                                                          *)
(* boto_errors is a context manager whose generator catches Exception,      *)
(* logs, sleeps 5 s and ends normally: the exception of the body is         *)
(* suppressed and execution continues after the with block.  A return in    *)
(* the body leaves the wrapper at once.                                     *)

\* largest value of the retries parameter that is explored
MaxRetries == 5
\* retries=4 in the signature of retry_boto_call
DefaultRetries == 4

\* values of the retries parameter
RetriesValues == 0..MaxRetries

\* what a call of the wrapped boto function can do: return its result (the
\* functions wrapped in remote.py return a response or None) or raise a
\* subclass of Exception
FuncReturns == {[kind |-> "return", value |-> "response"],
                [kind |-> "return", value |-> "None"]}
FuncRaises == {[kind |-> "raise", value |-> "ClientError"],
               [kind |-> "raise", value |-> "WaiterError"]}
FuncOutcomes == FuncReturns \cup FuncRaises

\* mutant: the wrapper gives up only when the counter reaches 0
Exhausted_AtZero(n) == n = 0

\* if numtries == 1
Exhausted(n) == n = 1

\* wrapper(*args, **kwargs) is entered: numtries = retries
WrapperEnter(r) ==
    /\ wrapper_pc' = "while"
    /\ retries' = r
    /\ numtries' = r
    /\ func_calls' = <<>>
    /\ wrapper_out' = NoOut

\* one test of `while numtries > 1` and, when it holds, one pass of the body
WrapperStep ==
    /\ wrapper_pc = "while"
    /\ IF numtries > 1
       THEN \E outcome \in FuncOutcomes :
              /\ func_calls' = Append(func_calls, outcome)
              /\ IF outcome.kind = "return"
                 THEN \* return func(*args, **kwargs)
                      /\ wrapper_out' = outcome
                      /\ wrapper_pc' = "returned"
                      /\ UNCHANGED numtries
                 ELSE \* boto_errors swallows the exception
                      /\ numtries' = numtries - 1
                      /\ IF Exhausted(numtries')
                         THEN /\ wrapper_out' = [kind |-> "raise", value |-> "BotoCallError"]
                              /\ wrapper_pc' = "raised"
                         ELSE /\ wrapper_pc' = "while"
                              /\ UNCHANGED wrapper_out
       ELSE \* the loop ends and the function body with it
            /\ wrapper_out' = [kind |-> "return", value |-> "None"]
            /\ wrapper_pc' = "returned"
            /\ UNCHANGED <<numtries, func_calls>>
    /\ UNCHANGED retries

InitRetry ==
    /\ FilterIdle /\ SpotIdle /\ AttachIdle /\ ConnectIdle /\ SetupIdle
    /\ wrapper_pc = "while"
    /\ retries \in RetriesValues
    /\ numtries = retries
    /\ func_calls = <<>>
    /\ wrapper_out = NoOut

RetryStep ==
    /\ WrapperStep
    /\ UNCHANGED <<filter_vars, setup_vars, spot_vars, attach_vars, connect_vars>>

NextRetry == RetryStep

SpecRetry == InitRetry /\ [][NextRetry]_vars

-----------------------------------------------------------------------------
(* ClusterServer.create_spot_cluster                                        *)
(*                                                                          *)
(* The run starts after configure_cluster with an instance type the         *)
(* function knows (c3, c4 or r3 with a subnet) and a security group that    *)
(* the request carries, so that resp, idx and request_id are bound.  EC2    *)
(* answers each describe_spot_instance_requests with a state and a status   *)
(* code of its choice.                                                      *)

\* max_tries = 40
spot_max_tries == 40

\* bad_status
BadStatus == {"price-too-low", "capacity-oversubscribed", "capacity-not-available",
              "launch-group-constraint", "az-group-constraint",
              "placement-group-constraint", "constraint-not-fulfillable",
              "schedule-expired", "bad-parameters", "system-error",
              "canceled-before-fulfillment"}

\* spot_resp['State'], spot_resp['Status']['Code'] as EC2 reports them
SpotAnswers ==
    {[State |-> "open", Code |-> c] : c \in {"pending-evaluation", "pending-fulfillment",
                                             "price-too-low", "capacity-not-available"}}
    \cup {[State |-> "active", Code |-> "fulfilled"],
          [State |-> "closed", Code |-> "system-error"],
          [State |-> "closed", Code |-> "instance-terminated-by-user"],
          [State |-> "failed", Code |-> "bad-parameters"],
          [State |-> "cancelled", Code |-> "canceled-before-fulfillment"]}

\* mutant: SpotBidError is raised and the request is left open
CancelAndRaise_NoCancel ==
    /\ spot_exc' = "SpotBidError"
    /\ spot_pc' = "raised"
    /\ UNCHANGED cancel_calls

\* client.cancel_spot_instance_requests(...); raise SpotBidError(...): the
\* cancellation is a boto call and can itself raise
CancelAndRaise ==
    /\ cancel_calls' = cancel_calls + 1
    /\ spot_exc' \in {"SpotBidError", "ClientError"}
    /\ spot_pc' = "raised"

InitSpot ==
    /\ FilterIdle /\ WrapperIdle /\ AttachIdle /\ ConnectIdle /\ SetupIdle
    /\ spot_pc = "request"
    /\ spot_resp = NoResp
    /\ spot_i = 0
    /\ cancel_calls = 0
    /\ inst_id = "None"
    /\ spot_exc = "none"

\* request_spot_instances and the first describe_spot_instance_requests
SpotRequest ==
    /\ spot_pc = "request"
    /\ spot_resp' \in SpotAnswers
    /\ spot_i' = 0
    /\ spot_pc' = "poll"
    /\ UNCHANGED <<cancel_calls, inst_id, spot_exc>>
    /\ UNCHANGED <<filter_vars, setup_vars, wrapper_vars, attach_vars, connect_vars>>

\* one test of `while spot_resp['State'] != 'active'` and, when it holds, one
\* pass of the body; when it fails, the call of the wrapped wait_for_cluster
SpotPoll ==
    /\ spot_pc = "poll"
    /\ IF spot_resp.State # "active"
       THEN /\ IF spot_resp.Code \in BadStatus
               THEN /\ CancelAndRaise
                    /\ UNCHANGED <<spot_resp, spot_i>>
               ELSE /\ spot_resp' \in SpotAnswers
                    /\ spot_i' = spot_i + 1
                    /\ IF spot_i' >= spot_max_tries
                       THEN CancelAndRaise
                       ELSE UNCHANGED <<spot_pc, cancel_calls, spot_exc>>
            /\ UNCHANGED wrapper_vars
       ELSE /\ spot_pc' = "wait"
            /\ WrapperEnter(DefaultRetries)
            /\ UNCHANGED <<spot_resp, spot_i, cancel_calls, spot_exc>>
    /\ UNCHANGED inst_id
    /\ UNCHANGED <<filter_vars, setup_vars, attach_vars, connect_vars>>

\* self.retry_boto_call(self.wait_for_cluster)(instance_id) is running
SpotWait ==
    /\ spot_pc = "wait"
    /\ WrapperStep
    /\ UNCHANGED <<filter_vars, setup_vars, spot_vars, attach_vars, connect_vars>>

\* the wrapper raised: the exception leaves create_spot_cluster
SpotWaitRaised ==
    /\ spot_pc = "wait"
    /\ wrapper_pc = "raised"
    /\ spot_exc' = wrapper_out.value
    /\ spot_pc' = "raised"
    /\ UNCHANGED <<spot_resp, spot_i, cancel_calls, inst_id>>
    /\ UNCHANGED <<filter_vars, setup_vars, wrapper_vars, attach_vars, connect_vars>>

\* self.inst_id = self.ec2.Instance(instance_id)
SpotAssign ==
    /\ spot_pc = "wait"
    /\ wrapper_pc = "returned"
    /\ inst_id' = "Instance"
    /\ spot_pc' = "done"
    /\ UNCHANGED <<spot_resp, spot_i, cancel_calls, spot_exc>>
    /\ UNCHANGED <<filter_vars, setup_vars, wrapper_vars, attach_vars, connect_vars>>

NextSpot ==
    \/ SpotRequest
    \/ SpotPoll
    \/ SpotWait
    \/ SpotWaitRaised
    \/ SpotAssign

SpecSpot == InitSpot /\ [][NextSpot]_vars

-----------------------------------------------------------------------------
(* ClusterServer.attach_volume                                              *)
(*                                                                          *)
(* EC2 chooses the state of the volume at every vol.reload() and the block  *)
(* device mappings of the instance at every read after a reload.  The       *)
(* mappings are the sequence of the Ebs statuses of the devices, root       *)
(* volume first: device_info[1] of the code is the second element.          *)

\* max_tries = 40
attach_max_tries == 40
\* largest value of i that is explored where the code puts no limit on it
MaxChecks == 42

\* vol.state
VolStates == {"available", "in-use"}

\* resp['ResponseMetadata']['HTTPStatusCode']
HttpStatuses == {200, 500}

\* self.inst_id.block_device_mappings: the root volume alone, or the root
\* volume and the new volume
DeviceInfos == {<<"attached">>, <<"attached", "attaching">>, <<"attached", "attached">>}

\* device_info[1] raises IndexError
NoIndexOne(info) == Len(info) < 2

\* device_info[1]['Ebs']['Status']
StatusOf(info) == info[2]

InitAttach ==
    /\ FilterIdle /\ WrapperIdle /\ SpotIdle /\ ConnectIdle /\ SetupIdle
    /\ attach_pc = "attach"
    /\ vol_state = "none"
    /\ attach_i = 0
    /\ http_status = 0
    /\ device_info = <<>>
    /\ status = "none"
    /\ attach_exc = "none"

\* vol = self.ec2.Volume(vol_id); self.inst_id.attach_volume(...); i = 0
AttachStart ==
    /\ attach_pc = "attach"
    /\ vol_state' \in VolStates
    /\ attach_i' = 0
    /\ attach_pc' = "in_use"
    /\ UNCHANGED <<http_status, device_info, status, attach_exc>>
    /\ UNCHANGED <<filter_vars, setup_vars, wrapper_vars, spot_vars, connect_vars>>

\* one test of `while vol.state != 'in-use'` and, when it holds, one pass of
\* the body
AttachWaitInUse ==
    /\ attach_pc = "in_use"
    /\ IF vol_state # "in-use"
       THEN /\ vol_state' \in VolStates
            /\ attach_i' = attach_i + 1
            /\ IF attach_i' >= attach_max_tries
               THEN /\ attach_exc' = "VolumeCreationError"
                    /\ attach_pc' = "raised"
               ELSE UNCHANGED <<attach_pc, attach_exc>>
       ELSE /\ attach_pc' = "modify"
            /\ UNCHANGED <<vol_state, attach_i, attach_exc>>
    /\ UNCHANGED <<http_status, device_info, status>>
    /\ UNCHANGED <<filter_vars, setup_vars, wrapper_vars, spot_vars, connect_vars>>

\* resp = self.inst_id.modify_attribute(...); when the status code is not 200
\* an EC2RuntimeError object is built and dropped (there is no raise); then
\* device_info is read, status = 'attempting', i = 0
AttachModify ==
    /\ attach_pc = "modify"
    /\ http_status' \in HttpStatuses
    /\ device_info' \in DeviceInfos
    /\ status' = "attempting"
    /\ attach_i' = 0
    /\ attach_pc' = "attached"
    /\ UNCHANGED <<vol_state, attach_exc>>
    /\ UNCHANGED <<filter_vars, setup_vars, wrapper_vars, spot_vars, connect_vars>>

\* one test of `while status != 'attached'` and, when it holds, one pass of
\* the try statement; when it fails, the final log line and the return
AttachCheck ==
    /\ attach_pc = "attached"
    /\ IF status # "attached"
       THEN IF NoIndexOne(device_info)
            THEN \* line 355 raises IndexError; except IndexError: i += 1
                 /\ attach_i < MaxChecks
                 /\ attach_i' = attach_i + 1
                 /\ UNCHANGED <<device_info, status, attach_pc, attach_exc>>
            ELSE \E info \in DeviceInfos :
                   /\ device_info' = info
                   /\ attach_i' = attach_i + 1
                   /\ IF NoIndexOne(info)
                      THEN \* line 361 raises IndexError after line 355 assigned status
                           /\ status' = StatusOf(device_info)
                           /\ UNCHANGED <<attach_pc, attach_exc>>
                      ELSE /\ status' = StatusOf(info)
                           /\ IF attach_i' >= attach_max_tries
                              THEN /\ attach_exc' = "VolumeCreationError"
                                   /\ attach_pc' = "raised"
                              ELSE UNCHANGED <<attach_pc, attach_exc>>
       ELSE /\ attach_pc' = "returned"
            /\ UNCHANGED <<attach_i, device_info, status, attach_exc>>
    /\ UNCHANGED <<vol_state, http_status>>
    /\ UNCHANGED <<filter_vars, setup_vars, wrapper_vars, spot_vars, connect_vars>>

NextAttach ==
    \/ AttachStart
    \/ AttachWaitInUse
    \/ AttachModify
    \/ AttachCheck

SpecAttach == InitAttach /\ [][NextAttach]_vars

-----------------------------------------------------------------------------
(* SSHServer.connect                                                        *)
(*                                                                          *)
(* The ssh server is the environment: each self.ssh.connect either succeeds *)
(* or raises.  FileNotFoundError has a handler of its own; the bare except  *)
(* takes every other exception.  sys.exit(2) raises SystemExit inside a     *)
(* handler, where the other handlers of the same try do not apply.          *)

\* max_attempts = 25
max_attempts == 25

\* exceptions of self.ssh.connect that reach the bare except
ConnectErrors == {"NoValidConnectionsError", "AuthenticationException",
                  "SSHException", "timeout"}

\* what one self.ssh.connect can do
ConnectOutcomes == {"connected", "FileNotFoundError"} \cup ConnectErrors

\* mutant: the call gives up when attempt reaches max_attempts
GivesUp_AtLimit(a) == a >= max_attempts

\* if attempt > max_attempts
GivesUp(a) == a > max_attempts

InitConnect ==
    /\ FilterIdle /\ WrapperIdle /\ SpotIdle /\ AttachIdle /\ SetupIdle
    /\ connect_pc = "try"
    /\ attempt = 1
    /\ ssh_calls = 0
    /\ connect_exc = [last |-> "none", ended |-> "none"]

\* one pass of `while True`
ConnectTry ==
    /\ connect_pc = "try"
    /\ ssh_calls' = ssh_calls + 1
    /\ \E outcome \in ConnectOutcomes :
         CASE outcome = "connected" ->
                \* break
                /\ connect_pc' = "returned"
                /\ connect_exc' = [connect_exc EXCEPT !.ended = "return"]
                /\ UNCHANGED attempt
           [] outcome = "FileNotFoundError" ->
                /\ connect_pc' = "exited"
                /\ connect_exc' = [last |-> outcome, ended |-> "SystemExit(2)"]
                /\ UNCHANGED attempt
           [] OTHER ->
                /\ attempt' = attempt + 1
                /\ IF GivesUp(attempt')
                   THEN \* raise
                        /\ connect_pc' = "raised"
                        /\ connect_exc' = [last |-> outcome, ended |-> outcome]
                   ELSE /\ connect_exc' = [connect_exc EXCEPT !.last = outcome]
                        /\ UNCHANGED connect_pc
    /\ UNCHANGED <<filter_vars, setup_vars, wrapper_vars, spot_vars, attach_vars>>

NextConnect == ConnectTry

SpecConnect == InitConnect /\ [][NextConnect]_vars

-----------------------------------------------------------------------------
(* ClusterServer.cluster_setup and the methods it calls                     *)
(*                                                                          *)
(* cluster_setup has no try statement: an exception of a step leaves it.    *)
(* create_spot_cluster, attach_volume and SSHServer.connect run as the      *)
(* state machines above; when one of them returns its local variables are   *)
(* gone and take their idle values again.  The config file, EC2 and the ssh *)
(* server are the environment.  exec_command returns the output and the     *)
(* error lines of the remote command and none of the steps reads the error  *)
(* lines, so a remote command either comes back or exec_command raises.     *)

\* max_tries = 40 in create_volume
create_max_tries == 40
\* num_retries = 30 in git_pull
num_retries == 30

\* config['SpotBid']['spot_bid']
SpotBids == {"None", "0.5"}

\* the exec_command calls of allocate_space, of git_pull before its loop, and
\* of set_credentials
Commands(part) ==
    CASE part = "allocate_commands" -> <<"mkfs", "mkdir /data", "mount">>
      [] part = "git_pull" -> <<"mkdir software", "chown /data", "chown software",
                                "curl", "tar", "pip3 install">>
      [] part = "set_credentials" -> <<"aws_access_key_id", "aws_secret_access_key",
                                       "region">>

\* an exception leaves the step and cluster_setup with it
SetupRaise(step, exc) ==
    /\ setup_pc' = "raised"
    /\ setup_exc' = exc
    /\ failed' = Append(failed, [step |-> step, what |-> exc])

\* the wrapper's locals after it returned
WrapperGone ==
    /\ wrapper_pc' = "idle"
    /\ retries' = 0
    /\ numtries' = 0
    /\ func_calls' = <<>>
    /\ wrapper_out' = NoOut

InitSetup ==
    /\ FilterIdle /\ WrapperIdle /\ SpotIdle /\ AttachIdle /\ ConnectIdle
    /\ setup_pc = "configure_cluster"
    /\ spot_bid = "None"
    /\ serv = "None"
    /\ step_pos = 0
    /\ steps = <<>>
    /\ remote_log = <<>>
    /\ failed = <<>>
    /\ setup_exc = "none"

\* self.configure_cluster(config_file, aws_instance): a key missing from the
\* config file raises KeyError
SetupConfigure ==
    /\ setup_pc = "configure_cluster"
    /\ steps' = Append(steps, "configure_cluster")
    /\ \/ /\ spot_bid' \in SpotBids
          /\ setup_pc' = "create_security_group"
          /\ UNCHANGED <<failed, setup_exc>>
       \/ /\ SetupRaise("configure_cluster", "KeyError")
          /\ UNCHANGED spot_bid
    /\ UNCHANGED <<serv, step_pos, remote_log>>
    /\ UNCHANGED <<filter_vars, wrapper_vars, spot_vars, attach_vars, connect_vars>>

\* self.create_security_group(): ClientError is caught and answered with
\* sys.exit(2)
SetupSecurityGroup ==
    /\ setup_pc = "create_security_group"
    /\ steps' = Append(steps, "create_security_group")
    /\ \/ /\ setup_pc' = "create"
          /\ UNCHANGED <<failed, setup_exc>>
       \/ SetupRaise("create_security_group", "SystemExit(2)")
    /\ UNCHANGED <<spot_bid, serv, step_pos, remote_log>>
    /\ UNCHANGED <<filter_vars, wrapper_vars, spot_vars, attach_vars, connect_vars>>

\* if self.spot_bid != 'None': self.create_spot_cluster(volsize) is entered
SetupCreateSpot ==
    /\ setup_pc = "create"
    /\ spot_bid # "None"
    /\ steps' = Append(steps, "create_spot_cluster")
    /\ setup_pc' = "create_spot_cluster"
    /\ spot_pc' = "request"
    /\ UNCHANGED <<spot_resp, spot_i, cancel_calls, inst_id, spot_exc>>
    /\ UNCHANGED <<spot_bid, serv, step_pos, remote_log, failed, setup_exc>>
    /\ UNCHANGED <<filter_vars, wrapper_vars, attach_vars, connect_vars>>

\* create_spot_cluster returned or raised
SetupSpotReturned ==
    /\ setup_pc = "create_spot_cluster"
    /\ spot_pc \in {"done", "raised"}
    /\ IF spot_pc = "done"
       THEN /\ setup_pc' = "connect_server"
            /\ UNCHANGED <<failed, setup_exc>>
       ELSE SetupRaise("create_spot_cluster", spot_exc)
    /\ spot_pc' = "idle"
    /\ spot_resp' = NoResp
    /\ spot_i' = 0
    /\ cancel_calls' = 0
    /\ spot_exc' = "none"
    /\ WrapperGone
    /\ UNCHANGED inst_id
    /\ UNCHANGED <<spot_bid, serv, step_pos, steps, remote_log>>
    /\ UNCHANGED <<filter_vars, attach_vars, connect_vars>>

\* else: self.create_cluster() up to the call of the wrapped wait_for_cluster
SetupCreateCluster ==
    /\ setup_pc = "create"
    /\ spot_bid = "None"
    /\ steps' = Append(steps, "create_cluster")
    /\ \/ /\ \E exc \in {"ValueError", "ClientError"} : SetupRaise("create_cluster", exc)
          /\ UNCHANGED wrapper_vars
       \/ /\ setup_pc' = "create_cluster"
          /\ WrapperEnter(DefaultRetries)
          /\ UNCHANGED <<failed, setup_exc>>
    /\ UNCHANGED <<spot_bid, serv, step_pos, remote_log>>
    /\ UNCHANGED <<filter_vars, spot_vars, attach_vars, connect_vars>>

\* self.retry_boto_call(self.wait_for_cluster)(instance.id) is running
SetupClusterWait ==
    /\ setup_pc = "create_cluster"
    /\ WrapperStep
    /\ UNCHANGED <<filter_vars, setup_vars, spot_vars, attach_vars, connect_vars>>

\* self.inst_id = instance, or BotoCallError leaves create_cluster
SetupClusterReturned ==
    /\ setup_pc = "create_cluster"
    /\ wrapper_pc \in {"returned", "raised"}
    /\ IF wrapper_pc = "returned"
       THEN /\ inst_id' = "Instance"
            /\ setup_pc' = "connect_server"
            /\ UNCHANGED <<failed, setup_exc>>
       ELSE /\ SetupRaise("create_cluster", wrapper_out.value)
            /\ UNCHANGED inst_id
    /\ WrapperGone
    /\ UNCHANGED <<spot_pc, spot_resp, spot_i, cancel_calls, spot_exc>>
    /\ UNCHANGED <<spot_bid, serv, step_pos, steps, remote_log>>
    /\ UNCHANGED <<filter_vars, attach_vars, connect_vars>>

\* self.connect_server(): SSHServer(...) raises ValueError when the key file
\* is missing, then ssh_server.connect() is entered
SetupConnect ==
    /\ setup_pc = "connect_server"
    /\ steps' = Append(steps, "connect_server")
    /\ \/ /\ SetupRaise("connect_server", "ValueError")
          /\ UNCHANGED connect_vars
       \/ /\ setup_pc' = "connecting"
          /\ connect_pc' = "try"
          /\ attempt' = 1
          /\ ssh_calls' = 0
          /\ connect_exc' = [last |-> "none", ended |-> "none"]
          /\ UNCHANGED <<failed, setup_exc>>
    /\ UNCHANGED <<spot_bid, serv, step_pos, remote_log>>
    /\ UNCHANGED <<filter_vars, wrapper_vars, spot_vars, attach_vars>>

\* ssh_server.connect() returned: self.serv = ssh_server; or it raised or exited
SetupConnectReturned ==
    /\ setup_pc = "connecting"
    /\ connect_pc \in {"returned", "raised", "exited"}
    /\ IF connect_pc = "returned"
       THEN /\ serv' = "ssh_server"
            /\ setup_pc' = "allocate_space"
            /\ UNCHANGED <<failed, setup_exc>>
       ELSE /\ SetupRaise("connect_server", connect_exc.ended)
            /\ UNCHANGED serv
    /\ connect_pc' = "idle"
    /\ attempt' = 0
    /\ ssh_calls' = 0
    /\ connect_exc' = [last |-> "none", ended |-> "none"]
    /\ UNCHANGED <<spot_bid, step_pos, steps, remote_log>>
    /\ UNCHANGED <<filter_vars, wrapper_vars, spot_vars, attach_vars>>

\* self.allocate_space(spot, volsize): if not spot, create_volume is entered
\* (self.ec2.create_volume can raise), else the commands follow directly
SetupAllocate ==
    /\ setup_pc = "allocate_space"
    /\ steps' = Append(steps, "allocate_space")
    /\ IF spot_bid # "None"
       THEN /\ setup_pc' = "allocate_commands"
            /\ UNCHANGED <<remote_log, failed, setup_exc, attach_vars>>
       ELSE \/ /\ SetupRaise("allocate_space", "ClientError")
               /\ UNCHANGED <<remote_log, attach_vars>>
            \/ /\ remote_log' = Append(remote_log, "create_volume")
               /\ vol_state' \in {"creating", "available"}
               /\ attach_i' = 0
               /\ setup_pc' = "create_volume"
               /\ UNCHANGED <<failed, setup_exc>>
               /\ UNCHANGED <<attach_pc, http_status, device_info, status, attach_exc>>
    /\ UNCHANGED <<spot_bid, serv, step_pos>>
    /\ UNCHANGED <<filter_vars, wrapper_vars, spot_vars, connect_vars>>

\* one test of `while vol_state != 'available'` in create_volume and, when it
\* holds, one pass of the body; when it fails, create_volume returns and
\* attach_volume is entered
SetupCreateVolume ==
    /\ setup_pc = "create_volume"
    /\ IF vol_state # "available"
       THEN /\ attach_i' = attach_i + 1
            /\ IF attach_i' >= create_max_tries
               THEN /\ SetupRaise("allocate_space", "VolumeCreationError")
                    /\ UNCHANGED vol_state
               ELSE /\ vol_state' \in {"creating", "available"}
                    /\ UNCHANGED <<setup_pc, failed, setup_exc>>
            /\ UNCHANGED <<attach_pc, remote_log>>
       ELSE /\ remote_log' = Append(remote_log, "attach_volume")
            /\ setup_pc' = "attach_volume"
            /\ attach_pc' = "attach"
            /\ vol_state' = "none"
            /\ attach_i' = 0
            /\ UNCHANGED <<failed, setup_exc>>
    /\ UNCHANGED <<http_status, device_info, status, attach_exc>>
    /\ UNCHANGED <<spot_bid, serv, step_pos, steps>>
    /\ UNCHANGED <<filter_vars, wrapper_vars, spot_vars, connect_vars>>

\* attach_volume returned or raised; a response of modify_attribute with a
\* status code other than 200 is a failure of the attachment that the code
\* tests for (remote.py line 346)
SetupAttachReturned ==
    /\ setup_pc = "attach_volume"
    /\ attach_pc \in {"returned", "raised"}
    /\ IF attach_pc = "returned"
       THEN /\ setup_pc' = "allocate_commands"
            /\ failed' = IF http_status # 200
                         THEN Append(failed, [step |-> "allocate_space",
                                              what |-> "modify_attribute"])
                         ELSE failed
            /\ UNCHANGED setup_exc
       ELSE SetupRaise("allocate_space", attach_exc)
    /\ attach_pc' = "idle"
    /\ vol_state' = "none"
    /\ attach_i' = 0
    /\ http_status' = 0
    /\ device_info' = <<>>
    /\ status' = "none"
    /\ attach_exc' = "none"
    /\ UNCHANGED <<spot_bid, serv, step_pos, steps, remote_log>>
    /\ UNCHANGED <<filter_vars, wrapper_vars, spot_vars, connect_vars>>

\* one self.serv.exec_command(...) of allocate_space, git_pull or
\* set_credentials
SetupExec ==
    /\ setup_pc \in {"allocate_commands", "git_pull", "set_credentials"}
    /\ step_pos < Len(Commands(setup_pc))
    /\ \/ /\ remote_log' = Append(remote_log, Commands(setup_pc)[step_pos + 1])
          /\ step_pos' = step_pos + 1
          /\ UNCHANGED <<setup_pc, failed, setup_exc>>
       \/ /\ SetupRaise(steps[Len(steps)], "SSHException")
          /\ UNCHANGED <<remote_log, step_pos>>
    /\ UNCHANGED <<spot_bid, serv, steps>>
    /\ UNCHANGED <<filter_vars, wrapper_vars, spot_vars, attach_vars, connect_vars>>

\* allocate_space returns; self.git_pull() is entered
SetupGitPull ==
    /\ setup_pc = "allocate_commands"
    /\ step_pos = Len(Commands(setup_pc))
    /\ steps' = Append(steps, "git_pull")
    /\ setup_pc' = "git_pull"
    /\ step_pos' = 0
    /\ UNCHANGED <<spot_bid, serv, remote_log, failed, setup_exc>>
    /\ UNCHANGED <<filter_vars, wrapper_vars, spot_vars, attach_vars, connect_vars>>

\* one pass of `for i in range(num_retries)` in git_pull, or its end:
\* EC2RuntimeError when no pass found output, else git_pull returns and
\* self.set_credentials() is entered
SetupProbe ==
    /\ setup_pc = "git_pull"
    /\ step_pos >= Len(Commands(setup_pc))
    /\ IF step_pos - Len(Commands(setup_pc)) < num_retries
       THEN \/ \* not out: time.sleep(2)
               /\ remote_log' = Append(remote_log, "process_experiment.py -h")
               /\ step_pos' = step_pos + 1
               /\ UNCHANGED <<setup_pc, steps, failed, setup_exc>>
            \/ \* install_fail = False; break
               /\ remote_log' = Append(remote_log, "process_experiment.py -h")
               /\ steps' = Append(steps, "set_credentials")
               /\ setup_pc' = "set_credentials"
               /\ step_pos' = 0
               /\ UNCHANGED <<failed, setup_exc>>
            \/ /\ SetupRaise("git_pull", "SSHException")
               /\ UNCHANGED <<remote_log, step_pos, steps>>
       ELSE /\ SetupRaise("git_pull", "EC2RuntimeError")
            /\ UNCHANGED <<remote_log, step_pos, steps>>
    /\ UNCHANGED <<spot_bid, serv>>
    /\ UNCHANGED <<filter_vars, wrapper_vars, spot_vars, attach_vars, connect_vars>>

\* set_credentials returns; 'Remote instance successfully configured.'
SetupFinish ==
    /\ setup_pc = "set_credentials"
    /\ step_pos = Len(Commands(setup_pc))
    /\ setup_pc' = "done"
    /\ UNCHANGED <<spot_bid, serv, step_pos, steps, remote_log, failed, setup_exc>>
    /\ UNCHANGED <<filter_vars, wrapper_vars, spot_vars, attach_vars, connect_vars>>

NextSetup ==
    \/ SetupConfigure
    \/ SetupSecurityGroup
    \/ SetupCreateSpot
    \/ SpotRequest
    \/ SpotPoll
    \/ SpotWait
    \/ SpotWaitRaised
    \/ SpotAssign
    \/ SetupSpotReturned
    \/ SetupCreateCluster
    \/ SetupClusterWait
    \/ SetupClusterReturned
    \/ SetupConnect
    \/ ConnectTry
    \/ SetupConnectReturned
    \/ SetupAllocate
    \/ SetupCreateVolume
    \/ AttachStart
    \/ AttachWaitInUse
    \/ AttachModify
    \/ AttachCheck
    \/ SetupAttachReturned
    \/ SetupExec
    \/ SetupGitPull
    \/ SetupProbe
    \/ SetupFinish

SpecSetup == InitSetup /\ [][NextSetup]_vars

-----------------------------------------------------------------------------
(* Vocabulary of the properties *)

InPipeline == pc \notin {"call", "called"}

\* the stage calls made so far that returned a mask
ReturnedCalls == {c \in 1..Len(calls) : calls[c].out.raised = "none"}
CallsOf(stage) == {c \in ReturnedCalls : calls[c].stage = stage}

Cells == 1..Len(molecules_data)

\* total molecule count of cell i, read off the input matrix
CellTotal(i) == SeqSum(molecules_data[i])

\* the cells a returned call marked that were valid before it
NewlyInvalid(c) == {i \in Cells : ~calls[c].is_invalid[i] /\ calls[c].out.ret[i]}
ValidBefore(c) == {i \in Cells : ~calls[c].is_invalid[i]}

\* sum(d.values())
RECURSIVE ValuesTo(_, _)
ValuesTo(d, n) == IF n = 0 THEN 0 ELSE d[n][2] + ValuesTo(d, n - 1)
DictSum(d) == ValuesTo(d, Len(d))

-----------------------------------------------------------------------------
(* C1: every stage returns a mask in which every cell that was invalid in   *)
(* its input mask is still invalid, for every input mask; in the pipeline   *)
(* the set of invalid cells never shrinks from one stage to the next.       *)

Superset(later, earlier) ==
    /\ Len(later) = Len(earlier)
    /\ \A i \in 1..Len(earlier) : earlier[i] => later[i]

\* C1: a mask returned by a stage keeps invalid every cell that was invalid in the
\* mask the stage was given, and the pipeline's masks only grow stage by stage
C1_MaskMonotonic ==
    /\ \A c \in ReturnedCalls : Superset(calls[c].out.ret, calls[c].is_invalid)
    /\ pc \in {"low_coverage", "high_mt", "skip_mt", "low_gene", "dense", "returned"}
          => Superset(count_invalid, is_invalid)
    /\ pc \in {"high_mt", "skip_mt", "low_gene", "dense", "returned"}
          => Superset(cov_invalid, count_invalid)
    /\ pc \in {"low_gene", "dense", "returned"} => Superset(mt_invalid, cov_invalid)
    /\ pc \in {"dense", "returned"} => Superset(gene_invalid, mt_invalid)

\* a stage was given a mask with excluded cells and excluded more
C1_Witness ==
    \E c \in ReturnedCalls :
        /\ \E i \in Cells : calls[c].is_invalid[i]
        /\ NewlyInvalid(c) # {}
        /\ NewlyInvalid(c) # ValidBefore(c)

-----------------------------------------------------------------------------
(* C2: when create_filtered_dense_count_matrix returns, the values of       *)
(* cells_lost add up to the number of cells invalid in the final mask minus *)
(* the number invalid in the initial mask, with and without the            *)
(* mitochondrial stage.                                                     *)

\* C2: at return, sum(cells_lost.values()) = invalid cells of the final mask
\* minus invalid cells of the initial mask
C2_LedgerConsistent ==
    pc = "returned" =>
        DictSum(cells_lost) = CountTrue(gene_invalid) - CountTrue(is_invalid)

\* a run without the mitochondrial stage in which two stages lost cells
C2_Witness ==
    /\ pc = "returned"
    /\ ~filter_mitochondrial_rna
    /\ Cardinality({k \in 1..Len(cells_lost) : cells_lost[k][2] > 0}) >= 2

-----------------------------------------------------------------------------
(* C3: the pipeline calls low_count, low_coverage, high_mitochondrial_rna   *)
(* (only when filter_mitochondrial_rna) and low_gene_abundance in this      *)
(* order, each once, the first with the all-false mask and every other with *)
(* the mask returned by the call just before it.                            *)

StageOrder ==
    IF filter_mitochondrial_rna
    THEN <<"low_count", "low_coverage", "high_mitochondrial_rna", "low_gene_abundance">>
    ELSE <<"low_count", "low_coverage", "low_gene_abundance">>

\* C3: the stages are called in the fixed order, each once, each with the mask
\* returned by the call before it
C3_StageOrder ==
    InPipeline =>
        /\ Len(calls) <= Len(StageOrder)
        /\ \A c \in 1..Len(calls) :
              /\ calls[c].stage = StageOrder[c]
              /\ c = 1 => /\ Len(calls[c].is_invalid) = Len(molecules_data)
                          /\ \A i \in Cells : ~calls[c].is_invalid[i]
              /\ c > 1 => /\ calls[c - 1].out.raised = "none"
                          /\ calls[c].is_invalid = calls[c - 1].out.ret
        /\ pc \in {"dense", "returned"} => Len(calls) = Len(StageOrder)

\* the mitochondrial stage was skipped and low_gene_abundance got a mask that
\* low_coverage had changed
C3_Witness ==
    /\ pc = "returned"
    /\ ~filter_mitochondrial_rna
    /\ calls[2].out.ret # calls[2].is_invalid
    /\ calls[3].stage = "low_gene_abundance"

-----------------------------------------------------------------------------
(* C4: with a molecule matrix whose entries add up to zero the pipeline     *)
(* raises EmptyMatrixError before any stage is called and before any entry  *)
(* is written to cells_lost or molecules_lost.                              *)

\* C4: an all-zero matrix ends in EmptyMatrixError with no stage called and
\* both ledgers empty
C4_EmptyMatrixFirst ==
    (InPipeline /\ pc # "start" /\ \A i \in Cells : CellTotal(i) = 0) =>
        /\ pc = "raised"
        /\ raised = "EmptyMatrixError"
        /\ calls = <<>>
        /\ cells_lost = <<>>
        /\ molecules_lost = <<>>

\* an all-zero matrix with cells, given together with a bad parameter
C4_Witness ==
    /\ raised = "EmptyMatrixError"
    /\ Len(molecules_data) > 0
    /\ max_mt_content.type = "int"

-----------------------------------------------------------------------------
(* C5: on a non-empty matrix the pipeline fails with TypeError or           *)
(* ValueError before any stage runs exactly when max_mt_content is not a    *)
(* float in [0, 1]; 0.0 and 1.0 are accepted, the integers 0 and 1 are not, *)
(* and filter_mitochondrial_rna makes no difference.                        *)

FloatInUnitInterval(q) ==
    /\ q.type = "float"
    /\ q.den # 0
    /\ q.num >= 0
    /\ q.num <= q.den

\* C5: on a non-empty matrix the call fails before any stage exactly when
\* max_mt_content is not a float in [0, 1]
C5_BadParameter ==
    (InPipeline /\ pc # "start" /\ \E i \in Cells : CellTotal(i) > 0) =>
        /\ (pc = "raised" /\ calls = <<>>) <=> ~FloatInUnitInterval(max_mt_content)
        /\ (pc = "raised" /\ calls = <<>>) => raised \in {"TypeError", "ValueError"}

\* the integer 1 is rejected although the mitochondrial stage is switched off
C5_Witness ==
    /\ pc = "raised"
    /\ raised = "TypeError"
    /\ max_mt_content = PyInt(1)
    /\ ~filter_mitochondrial_rna

-----------------------------------------------------------------------------
(* C6: high_mitochondrial_rna newly marks a valid cell if and only if its   *)
(* molecules over the genes whose identifier starts with 'MT-', divided by  *)
(* all its molecules, are strictly more than max_mt_content; the mark is at *)
(* the cell's own position.                                                 *)

\* molecules of cell i over genes named MT-...
MitoMolecules(i) ==
    LET mito == {j \in 1..Len(molecules_columns) :
                    /\ Len(molecules_columns[j]) >= 3
                    /\ molecules_columns[j][1] = "M"
                    /\ molecules_columns[j][2] = "T"
                    /\ molecules_columns[j][3] = "-"}
    IN SeqSum(Array([j \in 1..Len(molecules_columns) |->
                        IF j \in mito THEN molecules_data[i][j] ELSE 0]))

\* MitoMolecules(i) / CellTotal(i) compared with q.num / q.den
FractionAbove(i, q) == CellTotal(i) > 0 /\ MitoMolecules(i) * q.den > q.num * CellTotal(i)
FractionEquals(i, q) == CellTotal(i) > 0 /\ MitoMolecules(i) * q.den = q.num * CellTotal(i)

\* C6: a valid cell is marked by high_mitochondrial_rna iff its mitochondrial
\* fraction is strictly above max_mt_content, at its own position
C6_StrictMtThreshold ==
    \A c \in CallsOf("high_mitochondrial_rna") :
        /\ Len(calls[c].out.ret) = Len(molecules_data)
        /\ \A i \in ValidBefore(c) :
              calls[c].out.ret[i] <=> FractionAbove(i, calls[c].max_mt_content)

\* behind an excluded cell, one cell exactly at the threshold stays valid and
\* another above it is marked
C6_Witness ==
    \E c \in CallsOf("high_mitochondrial_rna") :
        /\ \E i \in Cells : i = 1 /\ calls[c].is_invalid[i]
        /\ \E i \in ValidBefore(c) :
              /\ FractionEquals(i, calls[c].max_mt_content)
              /\ MitoMolecules(i) > 0
              /\ ~calls[c].out.ret[i]
        /\ \E i \in ValidBefore(c) : calls[c].out.ret[i]

-----------------------------------------------------------------------------
(* C7 as stated: once low_count has its threshold vcrit, every valid cell   *)
(* whose total molecule count is at or below vcrit is marked invalid,       *)
(* cells whose total equals vcrit included.                                 *)

ThresholdCalls == {c \in CallsOf("low_count") : calls[c].out.vcrit >= 0}

\* C7 (as stated): every valid cell with total <= vcrit is marked by low_count
C7_AtOrBelowMarked ==
    \A c \in ThresholdCalls :
        \A i \in ValidBefore(c) :
            CellTotal(i) <= calls[c].out.vcrit => calls[c].out.ret[i]

(* C7 amended: called with a mask that excludes no cell, low_count marks a  *)
(* cell if and only if its total is strictly below vcrit; cells whose total *)
(* equals vcrit stay valid.                                                 *)

\* C7 (amended): given a mask that excludes no cell, low_count marks exactly
\* the cells with total < vcrit
C7_StrictlyBelowMarked ==
    \A c \in ThresholdCalls :
        ValidBefore(c) = Cells =>
            \A i \in Cells : calls[c].out.ret[i] <=> CellTotal(i) < calls[c].out.vcrit

\* cells above, at and below the threshold
C7_Witness ==
    \E c \in ThresholdCalls :
        /\ ValidBefore(c) = Cells
        /\ \E i \in Cells : CellTotal(i) > calls[c].out.vcrit
        /\ \E i \in Cells : CellTotal(i) = calls[c].out.vcrit /\ ~calls[c].out.ret[i]
        /\ \E i \in Cells : CellTotal(i) < calls[c].out.vcrit /\ calls[c].out.ret[i]

-----------------------------------------------------------------------------
(* C8: low_count called with fewer than 20 valid cells returns a mask equal *)
(* to its input mask, warns, and does not raise.                            *)

\* C8: with fewer than 20 valid cells low_count returns its input mask, warns
\* and does not raise
C8_FewCellsPassThrough ==
    \A c \in 1..Len(calls) :
        (calls[c].stage = "low_count"
            /\ Cardinality({i \in Cells : ~calls[c].is_invalid[i]}) < 20) =>
            /\ calls[c].out.raised = "none"
            /\ calls[c].out.ret = calls[c].is_invalid
            /\ calls[c].out.warned

\* 19 valid cells left of 20 or more
C8_Witness ==
    \E c \in CallsOf("low_count") :
        /\ Cardinality(ValidBefore(c)) = 19
        /\ Len(molecules_data) > 19
        /\ calls[c].out.warned

-----------------------------------------------------------------------------
(* C9 as stated: low_coverage marks cells exactly when the two-component    *)
(* BIC is less than 95% of the one-component BIC (bic2 < 0.95 * bic1),      *)
(* negative BIC values included; otherwise it returns its input mask.       *)

FittedCalls == {c \in CallsOf("low_coverage") : calls[c].out.gmm.fitted}

\* C9 (as stated): low_coverage marks cells exactly when bic2 < 0.95 * bic1,
\* and otherwise returns a mask equal to its input
C9_BicProduct ==
    \A c \in FittedCalls :
        LET g == calls[c].out.gmm
        IN /\ g.predicted <=> 100 * g.bic2 < 95 * g.bic1
           /\ ~(100 * g.bic2 < 95 * g.bic1) => calls[c].out.ret = calls[c].is_invalid

-----------------------------------------------------------------------------
(* C10: when low_coverage accepts the two-component fit, the newly invalid  *)
(* cells are exactly the valid cells assigned to the component with the     *)
(* smaller mean, each at its own position in the full-length mask.          *)

\* the place of valid cell i among the valid cells of call c
RankAmongValid(c, i) == Cardinality({j \in ValidBefore(c) : j <= i})

\* the component with the smaller mean (the first of two equal ones)
SmallerMean(means) == IF means[1] <= means[2] THEN 0 ELSE 1

\* C10: when the two-component fit is accepted, a valid cell is marked iff it
\* is assigned to the component with the smaller mean, at its own position
C10_LowerComponentMarked ==
    \A c \in FittedCalls :
        LET g == calls[c].out.gmm
        IN g.predicted =>
              /\ Len(calls[c].out.ret) = Len(molecules_data)
              /\ \A i \in ValidBefore(c) :
                    calls[c].out.ret[i] <=>
                        g.res[RankAmongValid(c, i)] = SmallerMean(g.means)

\* behind an excluded cell, cells of both components
C10_Witness ==
    \E c \in FittedCalls :
        /\ calls[c].out.gmm.predicted
        /\ \E i \in Cells : i = 1 /\ calls[c].is_invalid[i]
        /\ NewlyInvalid(c) # {}
        /\ NewlyInvalid(c) # ValidBefore(c)

-----------------------------------------------------------------------------
(* C11.  low_coverage called with fewer than 10 valid cells does not raise, *)
(* warns, fits no mixture model and returns a mask equal to its input.      *)

\* C11: a low_coverage call on fewer than 10 valid cells returns the input mask's contents, warns, fits no mixture model and does not raise
C11_FewCellsNoMixture ==
    \A c \in 1..Len(calls) :
        (calls[c].stage = "low_coverage" /\ Cardinality(ValidBefore(c)) < 10)
        => /\ calls[c].out.raised = "none"
           /\ calls[c].out.ret = calls[c].is_invalid
           /\ calls[c].out.warned
           /\ ~calls[c].out.gmm.fitted

\* nine valid cells left of a matrix of at least ten: the call passed through
C11_Witness ==
    \E c \in 1..Len(calls) :
        /\ calls[c].stage = "low_coverage"
        /\ Len(molecules_data) >= 10
        /\ Cardinality(ValidBefore(c)) = 9
        /\ CountTrue(calls[c].is_invalid) > 0
        /\ calls[c].out.ret = calls[c].is_invalid
        /\ calls[c].out.warned

-----------------------------------------------------------------------------
(* C12.  low_gene_abundance marks a valid cell exactly when the fitted      *)
(* log10 gene count at its log10 molecule count exceeds the observed log10  *)
(* gene count by strictly more than 0.15.  The fitted values are those the  *)
(* regression returned; the observed value is read off the input matrix.    *)

\* the calls of low_gene_abundance that fitted the regression
RegressedCalls == {c \in CallsOf("low_gene_abundance") : calls[c].out.regr.fitted}

\* log10 of the number of genes detected in cell i, in hundredths
ObservedLogGenes(i) ==
    Log10Table[Cardinality({j \in 1..Len(molecules_data[i]) : molecules_data[i][j] > 0})]

\* (fitted - observed) for valid cell i of call c, times the scale of the fit
Shortfall(c, i) ==
    calls[c].out.regr.yhat[RankAmongValid(c, i)]
        - calls[c].out.regr.scale * ObservedLogGenes(i)

\* C12: low_gene_abundance marks a valid cell if and only if fitted minus observed log10 gene count is strictly greater than 0.15
C12_ResidualAboveMargin ==
    \A c \in RegressedCalls :
        \A i \in ValidBefore(c) :
            calls[c].out.ret[i] <=> Shortfall(c, i) > 15 * calls[c].out.regr.scale

\* one cell is marked, another lies below the line by no more than 0.15 and stays
C12_Witness ==
    \E c \in RegressedCalls :
        /\ \E i \in ValidBefore(c) : calls[c].out.ret[i]
        /\ \E i \in ValidBefore(c) :
              /\ Shortfall(c, i) > 0
              /\ Shortfall(c, i) <= 15 * calls[c].out.regr.scale
              /\ ~calls[c].out.ret[i]

-----------------------------------------------------------------------------
(* C13.  low_gene_abundance called when no cell is valid fits no regression,*)
(* does not raise and returns a mask equal to its input.                    *)

\* C13: a low_gene_abundance call with no valid cell returns the input mask's contents, fits no regression and does not raise
C13_NoValidCellNoRegression ==
    \A c \in 1..Len(calls) :
        (calls[c].stage = "low_gene_abundance" /\ ValidBefore(c) = {})
        => /\ calls[c].out.raised = "none"
           /\ calls[c].out.ret = calls[c].is_invalid
           /\ ~calls[c].out.regr.fitted

\* the pipeline reached low_gene_abundance with every cell already excluded
C13_Witness ==
    /\ InPipeline
    /\ \E c \in 1..Len(calls) :
          /\ calls[c].stage = "low_gene_abundance"
          /\ Cells # {}
          /\ ValidBefore(c) = {}
          /\ calls[c].out.ret = calls[c].is_invalid

-----------------------------------------------------------------------------
(* C14.  For every stage the pipeline ran, cells_lost[stage] is the number  *)
(* of invalid cells after the stage minus the number before it, and         *)
(* molecules_lost[stage] is the sum of the molecule counts of exactly the   *)
(* cells the stage newly excluded; neither is negative.                     *)

\* the ledger key under which a stage is booked
LedgerKey(stage) ==
    CASE stage = "low_count" -> "low_count"
      [] stage = "low_coverage" -> "low_coverage"
      [] stage = "high_mitochondrial_rna" -> "high_mt"
      [] stage = "low_gene_abundance" -> "low_gene_detection"

HasKey(d, key) == \E k \in 1..Len(d) : d[k][1] = key
DictGet(d, key) == d[CHOOSE k \in 1..Len(d) : d[k][1] = key][2]

\* total molecule count of a set of cells, read off the input matrix
RECURSIVE MoleculesOf(_)
MoleculesOf(S) ==
    IF S = {} THEN 0
    ELSE LET i == CHOOSE j \in S : TRUE IN CellTotal(i) + MoleculesOf(S \ {i})

\* C14: each stage's cells_lost entry is invalid-after minus invalid-before, its molecules_lost entry is the molecule total of exactly the newly excluded cells, and both are non-negative
C14_PerStageLoss ==
    InPipeline =>
        \A c \in ReturnedCalls :
            LET key == LedgerKey(calls[c].stage) IN
            /\ HasKey(cells_lost, key)
            /\ HasKey(molecules_lost, key)
            /\ DictGet(cells_lost, key)
                  = CountTrue(calls[c].out.ret) - CountTrue(calls[c].is_invalid)
            /\ DictGet(molecules_lost, key) = MoleculesOf(NewlyInvalid(c))
            /\ DictGet(cells_lost, key) >= 0
            /\ DictGet(molecules_lost, key) >= 0

\* a stage after the first excluded cells on top of cells already excluded
C14_Witness ==
    /\ pc = "returned"
    /\ \E c \in ReturnedCalls :
          /\ c >= 2
          /\ CountTrue(calls[c].is_invalid) > 0
          /\ NewlyInvalid(c) # {}
          /\ DictGet(molecules_lost, LedgerKey(calls[c].stage)) > 0

-----------------------------------------------------------------------------
(* C15.  cells_lost and molecules_lost have the same keys in the same       *)
(* order, the order in which the stages ran: low_count, low_coverage,       *)
(* high_mt, low_gene_detection.  high_mt is there exactly when the          *)
(* mitochondrial stage ran: four entries with it, three without.            *)

\* list(d.keys())
Keys(d) == Array([k \in 1..Len(d) |-> d[k][1]])

\* the keys a finished run leaves in its ledgers
KeysAtReturn ==
    IF filter_mitochondrial_rna
    THEN <<"low_count", "low_coverage", "high_mt", "low_gene_detection">>
    ELSE <<"low_count", "low_coverage", "low_gene_detection">>

\* C15: the two ledgers have identical key sequences in stage order, with high_mt present exactly when the mitochondrial stage ran (four entries, else three)
C15_LedgerKeys ==
    /\ Keys(cells_lost) = Keys(molecules_lost)
    /\ HasKey(cells_lost, "high_mt")
          <=> \E c \in 1..Len(calls) :
                 InPipeline /\ calls[c].stage = "high_mitochondrial_rna"
    /\ pc = "returned" =>
          /\ Keys(cells_lost) = KeysAtReturn
          /\ Len(cells_lost) = IF filter_mitochondrial_rna THEN 4 ELSE 3

\* a finished run that skipped the mitochondrial stage: three entries each
C15_Witness ==
    /\ pc = "returned"
    /\ ~filter_mitochondrial_rna
    /\ Len(cells_lost) = 3
    /\ Len(molecules_lost) = 3
    /\ ~HasKey(molecules_lost, "high_mt")

-----------------------------------------------------------------------------
(* C16.  The returned table has one row for every cell valid in the final   *)
(* mask, in input order, under the cell's own identifier; one column for    *)
(* every gene whose total over the surviving cells is not zero, in input    *)
(* order, under the gene's own identifier; and its values are the input     *)
(* molecule counts.                                                         *)

\* the cells valid in the final mask
Survivors == {i \in Cells : ~gene_invalid[i]}

Genes == 1..Len(molecules_columns)

\* total of gene j over a set of cells, read off the input matrix
RECURSIVE GeneTotal(_, _)
GeneTotal(j, S) ==
    IF S = {} THEN 0
    ELSE LET i == CHOOSE c \in S : TRUE IN molecules_data[i][j] + GeneTotal(j, S \ {i})

\* the genes detected in some surviving cell
SurvivingGenes == {j \in Genes : GeneTotal(j, Survivors) # 0}

\* the k-th smallest member of a set of positions
Nth(S, k) == CHOOSE i \in S : Cardinality({j \in S : j <= i}) = k

\* C16: the dense table's rows are the surviving cells in input order with their identifiers, its columns the genes with a nonzero total over the survivors in input order with their identifiers, its values the input counts
C16_DenseTable ==
    pc = "returned" =>
        /\ Len(dense.index) = Cardinality(Survivors)
        /\ Len(dense.values) = Cardinality(Survivors)
        /\ Len(dense.columns) = Cardinality(SurvivingGenes)
        /\ \A k \in 1..Cardinality(Survivors) :
              /\ dense.index[k] = molecules_index[Nth(Survivors, k)]
              /\ Len(dense.values[k]) = Cardinality(SurvivingGenes)
              /\ \A l \in 1..Cardinality(SurvivingGenes) :
                    dense.values[k][l]
                        = molecules_data[Nth(Survivors, k)][Nth(SurvivingGenes, l)]
        /\ \A l \in 1..Cardinality(SurvivingGenes) :
              dense.columns[l] = molecules_columns[Nth(SurvivingGenes, l)]

\* some cells were excluded before a survivor, and a gene seen only in
\* excluded cells was dropped while a gene before it in the input was kept
C16_Witness ==
    /\ pc = "returned"
    /\ \E i \in Survivors : \E e \in Cells \ Survivors : e < i
    /\ \E j \in Genes \ SurvivingGenes :
          /\ GeneTotal(j, Cells) > 0
          /\ \E g \in SurvivingGenes : g < j

-----------------------------------------------------------------------------
(* C17.  When the pipeline returns, the values of molecules_lost add up to  *)
(* no more than total_molecules.                                            *)

\* C17: at return the sum of the molecules_lost values is at most total_molecules
C17_LossWithinTotal ==
    pc = "returned" => DictSum(molecules_lost) <= total_molecules

\* several stages lost molecules and together they lost every molecule there was
C17_Witness ==
    /\ pc = "returned"
    /\ total_molecules > 0
    /\ DictSum(molecules_lost) = total_molecules
    /\ Cardinality({k \in 1..Len(molecules_lost) : molecules_lost[k][2] > 0}) >= 2

-----------------------------------------------------------------------------
(* C18.  No stage returns the mask object it was given: on every path, the  *)
(* pass-through paths included, the returned mask is a new object.          *)

\* C18: every mask a stage returns is a new object, never the argument itself
C18_NeverSameObject ==
    \A c \in ReturnedCalls : ~calls[c].out.same_object

-----------------------------------------------------------------------------
(* C19.  No stage changes the contents of the mask it is given, on any      *)
(* path; a mask the pipeline keeps from an earlier stage is unchanged by    *)
(* all later stages.                                                        *)

\* the pipeline's name for the mask a stage returned
KeptMask(stage) ==
    CASE stage = "low_count" -> count_invalid
      [] stage = "low_coverage" -> cov_invalid
      [] stage = "high_mitochondrial_rna" -> mt_invalid
      [] stage = "low_gene_abundance" -> gene_invalid

\* C19: after every stage call the argument mask holds the values it held before, and every mask kept from an earlier stage still holds the values that stage returned
C19_InputMaskUntouched ==
    /\ \A c \in 1..Len(calls) : calls[c].out.arg_after = calls[c].is_invalid
    /\ Len(calls) >= 1 => is_invalid = calls[1].is_invalid
    /\ InPipeline =>
          \A c \in ReturnedCalls : KeptMask(calls[c].stage) = calls[c].out.ret

\* a finished run in which two stages each excluded cells: the initial mask
\* is still all-false and the masks kept from the earlier stages differ from
\* one another and from the final mask
C19_Witness ==
    /\ pc = "returned"
    /\ Cardinality({c \in ReturnedCalls : NewlyInvalid(c) # {}}) >= 2
    /\ CountTrue(is_invalid) = 0
    /\ count_invalid # cov_invalid
    /\ cov_invalid # gene_invalid

-----------------------------------------------------------------------------
(* C20.  With the same matrices, mask and parameters a stage returns the    *)
(* same mask whether or not a chart is requested, and the pipeline returns  *)
(* the same table and ledgers.  Each stage is compared with itself on the   *)
(* same arguments and the same mixture-model results under the other value  *)
(* of plot, on every mask a stage is about to receive; the pipeline's       *)
(* results are compared with their values as functions of the inputs and    *)
(* the masks alone.  Checked under SpecPlot.                                *)

\* an outcome without the record of its chart
Unplotted(out) == [out EXCEPT !.plotted = FALSE]
Masked(outcomes) == {Unplotted(out) : out \in outcomes}

\* the values of max_mt_content a stage can be called with
ValidMt == {m \in MtValues : IsFloat(m) /\ InUnitInterval(m)}

\* the four stages give the same outcomes on (mask, q) with and without plot
SameWithPlot(mask, qs) ==
    /\ Masked(low_count(molecules_data, mask, TRUE, TRUE))
          = Masked(low_count(molecules_data, mask, FALSE, FALSE))
    /\ Masked(low_coverage(molecules_data, reads_data, mask, TRUE, TRUE))
          = Masked(low_coverage(molecules_data, reads_data, mask, FALSE, FALSE))
    /\ \A q \in qs :
          Masked(high_mitochondrial_rna(molecules_data, molecules_columns, mask, q,
                                        TRUE, TRUE))
             = Masked(high_mitochondrial_rna(molecules_data, molecules_columns, mask, q,
                                             FALSE, FALSE))
    /\ Masked(low_gene_abundance(molecules_data, mask, TRUE, TRUE))
          = Masked(low_gene_abundance(molecules_data, mask, FALSE, FALSE))

\* the ledgers and the table as functions of the inputs and the masks of the calls
CellsLostOf(c) == CountTrue(calls[c].out.ret) - CountTrue(calls[c].is_invalid)
LedgerFrom(Loss(_)) ==
    Array([c \in 1..Len(calls) |-> <<LedgerKey(calls[c].stage), Loss(c)>>])
MoleculesLostOf(c) == MoleculesOf(NewlyInvalid(c))
TableFrom(mask) ==
    LET rows == {i \in Cells : ~mask[i]}
        cols == {j \in Genes : GeneTotal(j, rows) # 0}
    IN [index |-> Array([k \in 1..Cardinality(rows) |-> molecules_index[Nth(rows, k)]]),
        columns |-> Array([l \in 1..Cardinality(cols) |->
                              molecules_columns[Nth(cols, l)]]),
        values |-> Array([k \in 1..Cardinality(rows) |->
                             Array([l \in 1..Cardinality(cols) |->
                                       molecules_data[Nth(rows, k)][Nth(cols, l)]])])]

\* the mask the pipeline hands to its next stage
NextMask ==
    CASE pc = "low_count" -> is_invalid
      [] pc = "low_coverage" -> count_invalid
      [] pc = "high_mt" -> cov_invalid
      [] pc = "low_gene" -> mt_invalid

-----------------------------------------------------------------------------
(* C21.  For every non-empty molecule matrix and every valid max_mt_content *)
(* the pipeline ends by returning, never by raising, thin data and cells    *)
(* with no molecules included.                                              *)

\* C21: once the parameters are accepted, create_filtered_dense_count_matrix never ends by raising
C21_NeverRaises ==
    (InPipeline /\ MatrixSum(molecules_data) # 0 /\ IsFloat(max_mt_content)
       /\ InUnitInterval(max_mt_content))
    => pc # "raised"

-----------------------------------------------------------------------------
(* C22.  The input matrices hold the same entries, row index and column     *)
(* index after the pipeline, and after each stage call, as before it,       *)
(* whether the call returns or raises.                                      *)

\* C22: no step of the pipeline or of a stage changes the entries, the row index or the column index of the molecule and read matrices
C22_InputsUntouched ==
    [][/\ molecules_data' = molecules_data
       /\ reads_data' = reads_data
       /\ molecules_index' = molecules_index
       /\ molecules_columns' = molecules_columns]_vars

\* a finished run whose table has fewer rows and fewer columns than the input,
\* which still has them all
C22_Witness ==
    /\ pc = "returned"
    /\ Len(dense.index) < Len(molecules_index)
    /\ Len(dense.columns) < Len(molecules_columns)
    /\ Len(dense.index) > 0
    /\ molecules_index = CellIds(Len(molecules_data))
    /\ reads_data = ReadsOf(molecules_data)

-----------------------------------------------------------------------------
(* C23.  low_count composes with any input mask: with cells excluded on     *)
(* input the call does not fail, and the cells it newly marks are valid     *)
(* cells whose own total is below the threshold, at their own positions.    *)

\* C23: a low_count call on a mask with excluded cells does not raise, and every cell it newly marks has a total below the threshold
C23_ComposesWithMask ==
    \A c \in 1..Len(calls) :
        (calls[c].stage = "low_count" /\ CountTrue(calls[c].is_invalid) > 0)
        => /\ calls[c].out.raised = "none"
           /\ \A i \in NewlyInvalid(c) :
                 calls[c].out.vcrit >= 0 /\ CellTotal(i) < calls[c].out.vcrit

-----------------------------------------------------------------------------
(* C24.  Molecule conservation: at return total_molecules is the sum of the *)
(* molecules_lost values plus the sum of the entries of the dense table.    *)

\* dense.sum().sum()
DenseSum == SeqSum(Array([k \in 1..Len(dense.values) |-> SeqSum(dense.values[k])]))

\* C24: at return total_molecules = sum of molecules_lost values + sum of the dense table's entries
C24_MoleculesConserved ==
    pc = "returned" => total_molecules = DictSum(molecules_lost) + DenseSum

\* two stages lost molecules, some molecules survive and a gene column was dropped
C24_Witness ==
    /\ pc = "returned"
    /\ Cardinality({k \in 1..Len(molecules_lost) : molecules_lost[k][2] > 0}) >= 2
    /\ DenseSum > 0
    /\ Len(dense.columns) < Len(molecules_columns)

-----------------------------------------------------------------------------
(* Vocabulary of the retry wrapper *)

\* the calls of the wrapped function that raised
FailedCalls == {k \in 1..Len(func_calls) : func_calls[k].kind = "raise"}

\* every call made so far raised
AllFailed == FailedCalls = 1..Len(func_calls)

\* the wrapper returned what the last call of the wrapped function returned
ReturnedLastResult ==
    /\ wrapper_pc = "returned"
    /\ Len(func_calls) > 0
    /\ func_calls[Len(func_calls)].kind = "return"
    /\ wrapper_out = func_calls[Len(func_calls)]

\* the wrapper raised BotoCallError
RaisedBotoCallError ==
    /\ wrapper_pc = "raised"
    /\ wrapper_out = [kind |-> "raise", value |-> "BotoCallError"]

-----------------------------------------------------------------------------
(* C25.  With retries at its default the wrapper calls the wrapped function *)
(* at most 3 times: the first call that does not raise ends the wrapper     *)
(* with that call's result, a raising call is followed by another call      *)
(* while fewer than 3 calls were made, and the third consecutive raising    *)
(* call ends the wrapper with BotoCallError.  The wrapper is sequential, so *)
(* "followed by another call" is: the wrapper stands at the loop test and   *)
(* the test holds.                                                          *)

\* C25: with the default retries at most 3 calls are made; a non-raising call is the last and its result is returned; fewer than 3 raising calls lead to another call; the third raising call leads to BotoCallError
C25_ThreeCallsAtMost ==
    retries = DefaultRetries /\ wrapper_pc # "idle" =>
        /\ Len(func_calls) <= 3
        /\ \A k \in 1..Len(func_calls) :
              func_calls[k].kind = "return" => k = Len(func_calls) /\ ReturnedLastResult
        /\ (AllFailed /\ Len(func_calls) < 3) => wrapper_pc = "while" /\ numtries > 1
        /\ (AllFailed /\ Len(func_calls) = 3) => RaisedBotoCallError
        /\ wrapper_pc = "raised" => AllFailed /\ Len(func_calls) = 3
        /\ wrapper_pc = "returned" => ReturnedLastResult

\* the default wrapper gave up after three raising calls
C25_Witness ==
    /\ retries = DefaultRetries
    /\ RaisedBotoCallError
    /\ Len(func_calls) = 3
    /\ AllFailed

-----------------------------------------------------------------------------
(* C26.  For every value of retries the wrapper ends either by returning    *)
(* the result of a call that did not raise or by raising BotoCallError.     *)

\* C26: whenever the wrapper has ended it returned the result of a non-raising call or raised BotoCallError
C26_ResultOrBotoCallError ==
    wrapper_pc \in {"returned", "raised"} => ReturnedLastResult \/ RaisedBotoCallError

-----------------------------------------------------------------------------
(* C27.  create_spot_cluster cancels the bid on a bad status code and on    *)
(* timeout: cancel_spot_instance_requests is called before SpotBidError is  *)
(* raised; the loop polls at most 40 times; self.inst_id is assigned only   *)
(* after the request was seen 'active' and wait_for_cluster succeeded.      *)

\* the request is not active and reports one of the bad status codes
ReportsBadStatus == spot_resp.State # "active" /\ spot_resp.Code \in BadStatus

\* C27: a step that finds a bad status code, or a 40th poll that still is not active, calls cancel_spot_instance_requests and ends the call; SpotBidError is never raised without that call; i never exceeds 40; inst_id is assigned only when the request is active and the wrapped wait_for_cluster returned
C27_CancelBeforeSpotBidError ==
    [][/\ (spot_pc = "poll" /\ ReportsBadStatus)
            => (cancel_calls' = cancel_calls + 1 /\ spot_pc' = "raised")
       /\ (spot_pc = "poll" /\ spot_i' = spot_max_tries /\ spot_i' # spot_i
             /\ spot_resp'.State # "active")
            => (cancel_calls' = cancel_calls + 1 /\ spot_pc' = "raised")
       /\ (spot_exc' = "SpotBidError" /\ spot_exc # "SpotBidError")
            => cancel_calls' = cancel_calls + 1
       /\ spot_i' <= spot_max_tries
       /\ inst_id' # inst_id
            => (spot_resp.State = "active" /\ ReturnedLastResult)]_vars

\* the request timed out: 40 polls, none bad, the bid cancelled, SpotBidError
C27_Witness ==
    /\ spot_pc = "raised"
    /\ spot_exc = "SpotBidError"
    /\ spot_i = spot_max_tries
    /\ ~ReportsBadStatus
    /\ spot_resp.State # "active"
    /\ cancel_calls = 1

-----------------------------------------------------------------------------
(* C28.  attach_volume always terminates: whatever EC2 reports, it returns  *)
(* after seeing 'attached' or raises VolumeCreationError after at most 40   *)
(* checks of the wait loop it is in.                                        *)

\* C28: while attach_volume stands in one of its wait loops it has made fewer than 40 checks in that loop
C28_AtMostFortyChecks ==
    attach_pc \in {"in_use", "attached"} => attach_i < attach_max_tries

-----------------------------------------------------------------------------
(* C29.  When the response of modify_attribute has a status code other than *)
(* 200, attach_volume fails with EC2RuntimeError and does not report the    *)
(* volume as attached.                                                      *)

\* C29: once modify_attribute answered with a status code other than 200 the call has ended with EC2RuntimeError
C29_ModifyFailureRaises ==
    (http_status # 0 /\ http_status # 200)
    => (attach_pc = "raised" /\ attach_exc = "EC2RuntimeError")

-----------------------------------------------------------------------------
(* C30.  SSHServer.connect makes at most 25 attempts: it returns only after *)
(* an attempt succeeded, tries again after every failure other than         *)
(* FileNotFoundError while fewer than 25 attempts failed, re-raises the     *)
(* last exception after the 25th failure, and exits with status 2 at once   *)
(* on FileNotFoundError.  attempt - 1 is the number of failures handled by  *)
(* the bare except; ssh_calls counts the calls of self.ssh.connect.         *)

\* C30: at most 25 calls of ssh.connect; while trying, every call so far failed and fewer than 25 did; a return follows a successful call; a raise follows the 25th failure and carries its exception; FileNotFoundError ends the call with SystemExit(2) without a further attempt
C30_TwentyFiveAttempts ==
    connect_pc # "idle" =>
        /\ ssh_calls <= max_attempts
        /\ connect_pc = "try" => ssh_calls = attempt - 1 /\ ssh_calls < max_attempts
        /\ connect_pc = "returned" => ssh_calls = attempt /\ connect_exc.ended = "return"
        /\ connect_pc = "raised" =>
              /\ ssh_calls = max_attempts
              /\ attempt - 1 = max_attempts
              /\ connect_exc.last \in ConnectErrors
              /\ connect_exc.ended = connect_exc.last
        /\ connect_pc = "exited" =>
              /\ ssh_calls = attempt
              /\ connect_exc = [last |-> "FileNotFoundError", ended |-> "SystemExit(2)"]

\* the 25th attempt failed and its exception was re-raised
C30_Witness ==
    /\ connect_pc = "raised"
    /\ ssh_calls = max_attempts
    /\ connect_exc.ended = "timeout"

-----------------------------------------------------------------------------
(* Vocabulary of cluster_setup *)

\* the steps of cluster_setup in the order the claim gives them
ExpectedSteps ==
    <<"configure_cluster", "create_security_group",
      IF spot_bid = "None" THEN "create_cluster" ELSE "create_spot_cluster",
      "connect_server", "allocate_space", "git_pull", "set_credentials">>

\* the steps entered so far are the first steps of the fixed order
StepsInOrder ==
    /\ Len(steps) <= Len(ExpectedSteps)
    /\ \A k \in 1..Len(steps) : steps[k] = ExpectedSteps[k]

\* the entries of remote_log that are calls of EC2, not remote commands
VolumeOperations == {"create_volume", "attach_volume"}

\* positions of remote_log that hold a remote command
RemoteCommands == {k \in 1..Len(remote_log) : remote_log[k] \notin VolumeOperations}

\* no remote command was executed unless connect_server set self.serv
CommandsAfterConnect == RemoteCommands # {} => serv = "ssh_server"

\* a volume was created and attached, in this order, before anything else
VolumeFirst ==
    /\ Len(remote_log) >= 2
    /\ remote_log[1] = "create_volume"
    /\ remote_log[2] = "attach_volume"

\* once a remote command ran, a volume was created and attached before it
\* exactly when no spot bid is configured; with a spot bid no volume is created
VolumeIffNoSpotBid ==
    /\ RemoteCommands # {} => (VolumeFirst <=> spot_bid = "None")
    /\ (\E k \in 1..Len(remote_log) : remote_log[k] \in VolumeOperations)
          => spot_bid = "None"

\* after a failure no step later than the one it occurred in was entered and
\* the call did not complete
FailureStopsLaterSteps ==
    failed # <<>> => (steps[Len(steps)] = failed[1].step /\ setup_pc # "done")

-----------------------------------------------------------------------------
(* C31.  cluster_setup performs its steps in a fixed order; no remote       *)
(* command runs before connect_server succeeded; a separate volume is       *)
(* created and attached before mkfs and mount exactly when no spot bid is   *)
(* configured; a failure in any step prevents all later steps.              *)

\* C31: the steps entered follow the fixed order, remote commands run only after connect_server succeeded, a volume is created and attached first if and only if no spot bid is configured, and after a failure in a step no later step is entered
C31_OrderedSetup ==
    setup_pc # "idle" =>
        /\ StepsInOrder
        /\ CommandsAfterConnect
        /\ VolumeIffNoSpotBid
        /\ FailureStopsLaterSteps

====
